---- MODULE Spec2Model ----
(***************************************************************************)
(* Model of the minimap tile pipeline of iShotFT/ethyrialwiki:             *)
(*   - the tile compositor, src/seeder/python_scripts/extract_minimap.py   *)
(*     and its predecessor src/old_extract_minimap.py (variable variant);  *)
(*   - the mosaic assembler, main of                                       *)
(*     src/seeder/python_scripts/stitch_minimap.py with the function       *)
(*     bodies of src/tools/scripts/stitch_minimap.py.                      *)
(* Lengths are in pixels.  A raster is sampled at the top-left pixel of    *)
(* every block of half a tile, so a canonical tile carries four samples.   *)
(***************************************************************************)
EXTENDS Integers, Sequences, FiniteSets, TLC

\* ------------------------------------------------------------------ bounds
\* The scripts hard-code a 6x5 grid (max_x = 5, max_y = 4); the model keeps the
\* code's formulas and scales the grid down.
max_x == 1
max_y == 1
\* Fragment files offered to a run carry floors in ZLo..ZHi.
ZSpan == 2
ZLo == 0 - 1
ZHi == ZLo + ZSpan
\* At most this many fragment files in the input directory.
MaxFiles == 2
\* At most this many environment failures (decode, paste, save) in one run.
MaxFaults == 2
\* At most this many files in the directory the assembler reads.
MaxTiles == 2
\* At most this many environment failures in a run that interleaves columns.
MaxFaultsAnyOrder == 1

\* ------------------------------------------------------- program constants
tile_width == 1000
tile_height == 1000
min_x == 0
min_y == 0
expected_width == (max_x + 1) * tile_width
expected_height == (max_y + 1) * tile_height

\* ------------------------------------------------------------------ rasters
None == [kind |-> "None"]

CeilDiv(a, b) == IF a <= 0 THEN 0 ELSE ((a - 1) \div b) + 1

\* Side of a sampling block.
Unit == tile_width \div 2

\* The sample points of a w x h raster: one per block.
Cells(w, h) == (0 .. CeilDiv(w, Unit) - 1) \X (0 .. CeilDiv(h, Unit) - 1)

\* A pixel: colour c = <<r, g, b>> and alpha a, each in 0..255.
Pixel(r, g, b, a) == [c |-> <<r, g, b>>, a |-> a]

Transparent == Pixel(0, 0, 0, 0)
Black == Pixel(0, 0, 0, 255)

\* mode is "RGB" (no alpha channel: every pixel has a = 255) or "RGBA".
Image(mode, w, h, px) == [kind |-> "Image", mode |-> mode, w |-> w, h |-> h, px |-> px]

\* Pixel of img at pixel position (X, Y); outside the raster PIL yields zeros,
\* which is black in a mode without alpha.
PixelAt(img, X, Y) ==
    IF X >= 0 /\ Y >= 0 /\ X < img.w /\ Y < img.h
    THEN img.px[<<X \div Unit, Y \div Unit>>]
    ELSE IF img.mode = "RGB" THEN Black ELSE Transparent

\* Image.crop((left, upper, right, lower)) for a box with right >= left and
\* lower >= upper.
Crop(img, left, upper, right, lower) ==
    Image(img.mode, right - left, lower - upper,
          [cell \in Cells(right - left, lower - upper) |->
              PixelAt(img, left + cell[1] * Unit, upper + cell[2] * Unit)])

\* Image.resize(size): the sample of a block is taken from the matching
\* position of the source.
Resize(img, w, h) ==
    Image(img.mode, w, h,
          [cell \in Cells(w, h) |->
              PixelAt(img, (cell[1] * Unit * img.w) \div w,
                           (cell[2] * Unit * img.h) \div h)])

\* One channel of Image.paste with a mask value a in 0..255.
Blend(below, above, a) == (below * (255 - a) + above * a) \div 255

BlendColour(below, above, a) ==
    << Blend(below[1], above[1], a), Blend(below[2], above[2], a),
       Blend(below[3], above[3], a) >>

\* ------------------------------------------------------------- file names
Num(n) == [t |-> "num", v |-> n]
Dash == [t |-> "dash", v |-> 0]
Letter == [t |-> "letter", v |-> 0]

FileName(stem, ext) == [stem |-> stem, ext |-> ext]

IsNum(tok) == tok.t = "num"
IsDash(tok) == tok.t = "dash"

\* The value that stands for a ValueError of the parsers.
NoCoord == <<>>

\* re.search(r'(\d+)-(\d+)-(-?\d+)\.minimap$'): the name ends with
\* digits-digits-digits or digits-digits--digits.
MatchPlainSuffix(s) ==
    /\ Len(s) >= 5
    /\ IsNum(s[Len(s) - 4]) /\ IsDash(s[Len(s) - 3]) /\ IsNum(s[Len(s) - 2])
    /\ IsDash(s[Len(s) - 1]) /\ IsNum(s[Len(s)])

MatchDoubleSuffix(s) ==
    /\ Len(s) >= 6
    /\ IsNum(s[Len(s) - 5]) /\ IsDash(s[Len(s) - 4]) /\ IsNum(s[Len(s) - 3])
    /\ IsDash(s[Len(s) - 2]) /\ IsDash(s[Len(s) - 1]) /\ IsNum(s[Len(s)])

\* extract_minimap.py (seeder): first pattern, then the alternate pattern.
parse_coordinates_from_filename(filename) ==
    LET s == filename.stem
        n == Len(s)
    IN  IF filename.ext = "minimap" /\ MatchPlainSuffix(s)
        THEN <<s[n - 4].v, s[n - 2].v, s[n].v>>
        ELSE IF filename.ext = "minimap" /\ MatchDoubleSuffix(s)
        THEN <<s[n - 5].v, s[n - 3].v, 0 - s[n].v>>
        ELSE NoCoord

\* Mutant: the group is (\d+), without the sign.
SignedGroup_Unsigned(s, i) ==
    IF i <= Len(s) /\ IsNum(s[i]) THEN <<s[i].v, i + 1>> ELSE <<>>

\* re.match of one group (-?\d+) at position i of s: <<value, next position>>,
\* or <<>> when the group does not match there.
SignedGroup(s, i) ==
    IF i <= Len(s) /\ IsNum(s[i]) THEN <<s[i].v, i + 1>>
    ELSE IF i + 1 <= Len(s) /\ IsDash(s[i]) /\ IsNum(s[i + 1]) THEN <<0 - s[i + 1].v, i + 2>>
    ELSE <<>>

\* re.match(r'(-?\d+)-(-?\d+)-(-?\d+)') on the name without its extension:
\* anchored at the start, anything may follow.
MatchThreeGroups(s) ==
    LET g1 == SignedGroup(s, 1)
        g2 == IF g1 # <<>> /\ g1[2] <= Len(s) /\ IsDash(s[g1[2]])
              THEN SignedGroup(s, g1[2] + 1) ELSE <<>>
        g3 == IF g2 # <<>> /\ g2[2] <= Len(s) /\ IsDash(s[g2[2]])
              THEN SignedGroup(s, g2[2] + 1) ELSE <<>>
    IN  IF g3 # <<>> THEN <<g1[1], g2[1], g3[1]>> ELSE NoCoord

MatchTwoGroups(s) ==
    LET g1 == SignedGroup(s, 1)
        g2 == IF g1 # <<>> /\ g1[2] <= Len(s) /\ IsDash(s[g1[2]])
              THEN SignedGroup(s, g1[2] + 1) ELSE <<>>
    IN  IF g2 # <<>> THEN <<g1[1], g2[1], 0>> ELSE NoCoord

\* old_extract_minimap.py: three groups, else X-Y with Z assumed 0.
old_parse_coordinates_from_filename(filename) ==
    IF MatchThreeGroups(filename.stem) # NoCoord THEN MatchThreeGroups(filename.stem)
    ELSE MatchTwoGroups(filename.stem)

\* tools/scripts/stitch_minimap.py: filename[:-4], then three groups.
parse_coordinates(filename) == MatchThreeGroups(filename.stem)

\* f"{x}-{y}-{z}.png" for x, y >= 0.
OutputName(x, y, z) ==
    FileName(<<Num(x), Dash, Num(y), Dash>>
                \o (IF z < 0 THEN <<Dash, Num(0 - z)>> ELSE <<Num(z)>>), "png")

\* ------------------------------------------------------------------ inputs
\* background.png as stored: pixel (X, Y) of the atlas.
AtlasPixel(cell) == Pixel(100 + cell[1], 150 + cell[2], 200, 255)

Atlas(w, h) == Image("RGB", w, h, [cell \in Cells(w, h) |-> AtlasPixel(cell)])

\* Sizes of the background file offered to a run: the expected size, and sizes
\* that cut the last column of the grid in part or altogether.
BgSizes ==
    { <<expected_width, expected_height>>,
      <<expected_width - Unit, expected_height>>,
      <<expected_width - 3 * Unit, expected_height>> }

BgFiles ==
    { [status |-> "ok", w |-> sz[1], h |-> sz[2]] : sz \in BgSizes }
      \cup { [status |-> st, w |-> 0, h |-> 0] : st \in {"missing", "unreadable"} }

\* The name X-Y-Z.minimap, with the double hyphen for a negative Z.
FragmentName(fx, fy, fz) ==
    FileName(<<Num(fx), Dash, Num(fy), Dash>>
                \o (IF fz < 0 THEN <<Dash, Num(0 - fz)>> ELSE <<Num(fz)>>), "minimap")

\* Files an input directory may hold: fragments of the grid and of one column
\* outside it, a name without coordinates, a name without Z, another extension.
InputNames ==
    { FragmentName(fx, fy, fz) : fx \in 0 .. max_x, fy \in 0 .. max_y, fz \in ZLo .. ZHi }
      \cup { FragmentName(max_x + 1, 0, ZHi),
             FileName(<<Letter>>, "minimap"),
             FileName(<<Num(0), Dash, Num(1)>>, "minimap"),
             FileName(<<Num(0), Dash, Num(0), Dash, Num(0)>>, "txt") }

InputDirs == { d \in SUBSET InputNames : Cardinality(d) <= MaxFiles }

\* The raster embedded in the fragment of coordinate c.  Its PNG has an alpha
\* channel ("RGBA") or none ("RGB"); its size is the canonical one or half of
\* it; with an alpha channel it is opaque throughout, or its samples are
\* opaque, clear or half-clear.
FragmentMode(c) ==
    IF (c[1] + 2 * c[2] + (c[3] - ZLo)) % 4 = 3 THEN "RGB" ELSE "RGBA"

FragmentAlpha(c, cell) ==
    LET k == (c[1] + 2 * c[2] + (c[3] - ZLo) + cell[1] + cell[2]) % 3
    IN  IF (c[1] + 2 * c[2] + (c[3] - ZLo)) % 4 \in {1, 3} THEN 255
        ELSE IF k = 0 THEN 255 ELSE IF k = 1 THEN 0 ELSE 128

FragmentImage(c) ==
    LET side == IF (c[1] + c[2] + (c[3] - ZLo)) % 2 = 0 THEN tile_width ELSE Unit
    IN  Image(FragmentMode(c), side, side,
              [cell \in Cells(side, side) |->
                  Pixel(1 + c[1] + 2 * c[2], 10 + 4 * (c[3] - ZLo), 20 + cell[1] + 2 * cell[2],
                        FragmentAlpha(c, cell))])

ErrorTypes ==
    { "missing_base_image", "missing_previous_layer", "paste_failure",
      "tile_load_failure", "save_failure", "missing_result_image" }

\* ------------------------------------------------------------------- state
VARIABLES
    variant,                \* "seeder": seeder/python_scripts; "old": old_extract_minimap.py
    pc,                     \* position of the running command
    bg_file,                \* the background file on disk
    in_dir,                 \* names of the files in the input directory
    background_image,
    data_lookup,            \* (x, y, z) -> file name
    global_min_z,
    global_max_z,
    x, y, z,                \* the iteration the nested loops execute next
    processed_layer_cache,  \* (x, y, z) -> raster
    out_dir,                \* file name -> raster saved under it in the output directory
    processed_count,
    error_count,
    error_types,
    skipped_base_coords,
    returned,               \* value main returned (-1: nothing returned)
    exit_code,              \* exit status of the process (-1: still running)
    faults,                 \* environment failures so far
    trace,                  \* one record per executed iteration of the z loop
    tiles_dir,              \* stitch: os.listdir of the tile directory, with the files
    z_layers,               \* stitch: floors found in the tile names
    z_done,                 \* stitch: floors the layer loop has been through
    stitch_out,             \* stitch: output name -> raster saved under it
    layer_save_errors,
    stitch_log              \* stitch: one record per composite or layer step

vars ==
    << variant, pc, bg_file, in_dir, background_image, data_lookup, global_min_z,
       global_max_z, x, y, z, processed_layer_cache, out_dir, processed_count,
       error_count, error_types, skipped_base_coords, returned, exit_code, faults,
       trace, tiles_dir, z_layers, z_done, stitch_out, layer_save_errors, stitch_log >>

StitchVars == <<tiles_dir, z_layers, z_done, stitch_out, layer_save_errors, stitch_log>>

Init ==
    /\ variant \in {"seeder", "old"}
    /\ pc = "load_background"
    /\ bg_file \in BgFiles
    /\ in_dir \in InputDirs
    /\ background_image = None
    /\ data_lookup = <<>>
    /\ global_min_z = 0
    /\ global_max_z = 0
    /\ x = min_x
    /\ y = min_y
    /\ z = 0
    /\ processed_layer_cache = <<>>
    /\ out_dir = <<>>
    /\ processed_count = 0
    /\ error_count = 0
    /\ error_types = [t \in ErrorTypes |-> 0]
    /\ skipped_base_coords = {}
    /\ returned = 0 - 1
    /\ exit_code = 0 - 1
    /\ faults = 0
    /\ trace = <<>>
    /\ tiles_dir = <<>>
    /\ z_layers = {}
    /\ z_done = {}
    /\ stitch_out = <<>>
    /\ layer_save_errors = 0
    /\ stitch_log = <<>>

\* ------------------------------------------------------- compositor helpers
Min(a, b) == IF a < b THEN a ELSE b
Max(a, b) == IF a > b THEN a ELSE b

\* dict[k] = v
Put(f, k, v) == [i \in DOMAIN f \cup {k} |-> IF i = k THEN v ELSE f[i]]

\* dict.get(k)
Get(f, k) == IF k \in DOMAIN f THEN f[k] ELSE None

\* Image.crop of a box that PIL accepts; a box with right < left or
\* lower < upper raises ValueError in current Pillow releases and gave an empty
\* image in older ones: both outcomes are kept.
CropOutcomes(img, left, upper, right, lower) ==
    IF right < left \/ lower < upper
    THEN { None, Image(img.mode, Max(right - left, 0), Max(lower - upper, 0), <<>>) }
    ELSE { Crop(img, left, upper, right, lower) }

\* extract_minimap.py (seeder): the set of values the call can return.
get_background_chunk(cx, cy, bg) ==
    IF cx < 0 \/ cx > max_x \/ cy < 0 \/ cy > max_y
    THEN { None }
    ELSE LET left == cx * tile_width
             upper == (max_y - cy) * tile_height
             right == left + tile_width
             lower == upper + tile_height
             exceeds == right > bg.w \/ lower > bg.h
         IN  CropOutcomes(bg, left, upper,
                          IF exceeds THEN Min(right, bg.w) ELSE right,
                          IF exceeds THEN Min(lower, bg.h) ELSE lower)

\* Image.convert('RGBA')
ConvertRGBA(img) == [img EXCEPT !.mode = "RGBA"]

\* old_extract_minimap.py: the box must lie inside the background.
old_get_background_chunk(cx, cy, bg) ==
    LET bg_x_start == cx * tile_width
        bg_y_start == (max_y - cy) * tile_height
        bg_x_end == bg_x_start + tile_width
        bg_y_end == bg_y_start + tile_height
    IN  IF ~ ( /\ 0 <= bg_x_start /\ bg_x_start < bg.w
               /\ 0 <= bg_y_start /\ bg_y_start < bg.h
               /\ bg_x_end <= bg.w
               /\ bg_y_end <= bg.h )
        THEN { None }
        ELSE { ConvertRGBA(Crop(bg, bg_x_start, bg_y_start, bg_x_end, bg_y_end)) }

BackgroundChunk(v, cx, cy, bg) ==
    IF v = "seeder" THEN get_background_chunk(cx, cy, bg)
    ELSE old_get_background_chunk(cx, cy, bg)

\* The raster a fragment file yields when its PNG payload is found and opens:
\* resized to the expected size when it differs.
load_tile_from_minimap(c, expected_w, expected_h) ==
    LET image == FragmentImage(c)
    IN  IF image.w # expected_w \/ image.h # expected_h
        THEN Resize(image, expected_w, expected_h)
        ELSE image

\* old_extract_minimap.py: the decoded raster is converted to RGBA first.
old_load_tile_from_minimap(c, expected_w, expected_h) ==
    ConvertRGBA(load_tile_from_minimap(c, expected_w, expected_h))

LoadTile(v, c) ==
    IF v = "seeder" THEN load_tile_from_minimap(c, tile_width, tile_height)
    ELSE old_load_tile_from_minimap(c, tile_width, tile_height)

\* Image.paste(im, box, mask) accepts a mask only if it has an alpha band;
\* with an "RGB" mask it raises ValueError (bad transparency mask).
MaskAccepted(mask) == mask.mode = "RGBA"

\* dest.paste(src, (ox, oy)) and, with masked, dest.paste(src, (ox, oy), src):
\* the part of src that falls inside dest replaces it, or is blended into it
\* through the alpha of src.
PasteAt(dest, src, ox, oy, masked) ==
    Image(dest.mode, dest.w, dest.h,
          [cell \in Cells(dest.w, dest.h) |->
              LET X == cell[1] * Unit
                  Y == cell[2] * Unit
                  below == dest.px[cell]
                  above == PixelAt(src, X - ox, Y - oy)
              IN  IF ~(X >= ox /\ X < ox + src.w /\ Y >= oy /\ Y < oy + src.h)
                  THEN below
                  ELSE IF masked
                  THEN [c |-> BlendColour(below.c, above.c, above.a),
                        a |-> IF dest.mode = "RGBA"
                              THEN Blend(below.a, above.a, above.a) ELSE 255]
                  ELSE [c |-> above.c,
                        a |-> IF dest.mode = "RGBA" THEN above.a ELSE 255]])

\* base_image.copy()
Copy(img) == img

\* result_image = base_image.copy(); result_image.paste(tile, (0, 0), tile)
PasteOnCopy(base_image, tile) == PasteAt(Copy(base_image), tile, 0, 0, TRUE)

IsEmptyImage(img) == img.w = 0 \/ img.h = 0

\* Mutant: a configuration error ends the run with status 0.
ConfigExitStatus_Zero(v) == 0

\* Exit status of a run that stops on a configuration error: sys.exit(1) in
\* the seeder script, a plain return in the old script.
ConfigExitStatus(v) == IF v = "seeder" THEN 1 ELSE 0

\* Mutants: the loop goes on after a missing background chunk; the loop is left
\* after a missing previous layer.
BreakOnMissingBase_Continue == FALSE
BreakOnMissingPrevious_Break == TRUE

\* The z loop is left (break) when the background chunk is missing, and goes on
\* (continue) when the previous layer is missing.
BreakOnMissingBase == TRUE
BreakOnMissingPrevious == FALSE

\* The columns of the grid: for x in range(min_x, max_x + 1), for y likewise.
Columns == (min_x .. max_x) \X (min_y .. max_y)

\* The column the loops enter after column (cx, cy), <<>> when the grid is
\* exhausted; a column in skipped_base_coords is passed over.
RECURSIVE NextColumn(_, _, _)
NextColumn(cx, cy, skipped) ==
    LET nx == IF cy < max_y THEN cx ELSE cx + 1
        ny == IF cy < max_y THEN cy + 1 ELSE min_y
    IN  IF nx > max_x THEN <<>>
        ELSE IF <<nx, ny>> \in skipped THEN NextColumn(nx, ny, skipped)
        ELSE <<nx, ny>>

\* Mutant: break leaves the loops over the columns as well.
Advance_EndsRun(leave_column, skipped) ==
    IF leave_column
    THEN /\ pc' = "summary"
         /\ UNCHANGED <<x, y, z>>
    ELSE IF z < global_max_z
    THEN /\ z' = z + 1
         /\ UNCHANGED <<x, y, pc>>
    ELSE LET nc == NextColumn(x, y, skipped)
         IN  IF nc = <<>>
             THEN /\ pc' = "summary"
                  /\ UNCHANGED <<x, y, z>>
             ELSE /\ x' = nc[1]
                  /\ y' = nc[2]
                  /\ z' = global_min_z
                  /\ UNCHANGED pc

\* continue (leave_column = FALSE) or break (TRUE) of the z loop.
Advance(leave_column, skipped) ==
    IF ~leave_column /\ z < global_max_z
    THEN /\ z' = z + 1
         /\ UNCHANGED <<x, y, pc>>
    ELSE LET nc == NextColumn(x, y, skipped)
         IN  IF nc = <<>>
             THEN /\ pc' = "summary"
                  /\ UNCHANGED <<x, y, z>>
             ELSE /\ x' = nc[1]
                  /\ y' = nc[2]
                  /\ z' = global_min_z
                  /\ UNCHANGED pc

\* The record of the iterations, kept in the order of the coordinates (x, then
\* y, then z): the order in which the nested loops reach them.
Before(c, d) ==
    \/ c[1] < d[1]
    \/ c[1] = d[1] /\ c[2] < d[2]
    \/ c[1] = d[1] /\ c[2] = d[2] /\ c[3] < d[3]

Log(tr, e) ==
    LET k == Cardinality({ i \in DOMAIN tr : Before(tr[i].c, e.c) })
    IN  SubSeq(tr, 1, k) \o <<e>> \o SubSeq(tr, k + 1, Len(tr))

\* The floor the z loop of column col is at, given the iterations done so far:
\* global_min_z before the first one, the floor after the last one done, and
\* zmax + 1 once the loop is over (range exhausted, or left by a break).
ColumnPosition(tr, col, zmin, zmax) ==
    LET done == { i \in DOMAIN tr : tr[i].c[1] = col[1] /\ tr[i].c[2] = col[2] }
    IN  IF done = {} THEN zmin
        ELSE LET last == tr[CHOOSE i \in done : \A j \in done : tr[j].c[3] <= tr[i].c[3]]
                 left == \/ last.errs = <<"missing_base_image">> /\ BreakOnMissingBase
                         \/ last.errs = <<"missing_previous_layer">> /\ BreakOnMissingPrevious
             IN  IF left THEN zmax + 1 ELSE last.c[3] + 1

\* The loop body under another schedule of the columns: after an iteration of
\* column (x, y) any column that still has floors to do goes on, each column
\* taking its floors in ascending order.
AdvanceAnyOrder(leave_column, skipped) ==
    LET own == IF ~leave_column /\ z < global_max_z THEN { <<x, y, z + 1>> } ELSE {}
        others == { <<col[1], col[2], ColumnPosition(trace, col, global_min_z, global_max_z)>> :
                      col \in { d \in Columns \ {<<x, y>>} :
                                  /\ d \notin skipped
                                  /\ ColumnPosition(trace, d, global_min_z, global_max_z)
                                        <= global_max_z } }
    IN  IF own \cup others = {}
        THEN /\ pc' = "summary"
             /\ UNCHANGED <<x, y, z>>
        ELSE /\ \E n \in own \cup others :
                   /\ x' = n[1]
                   /\ y' = n[2]
                   /\ z' = n[3]
             /\ UNCHANGED pc

Count(types, t) == [types EXCEPT ![t] = @ + 1]

\* Mutant: a column without background counts as one error.
ColumnErrorCount_One(zmin, zmax) == 1

\* error_count += (global_max_z - global_min_z + 1): all floors of a column
\* without background count as errors.
ColumnErrorCount(zmin, zmax) == zmax - zmin + 1

\* What one iteration of the z loop did.
Entry(c, base, frag, result, save, errs, inc) ==
    [c |-> c, base |-> base, frag |-> frag, result |-> result, save |-> save,
     errs |-> errs, inc |-> inc]

\* ------------------------------------------------------- compositor actions
RunVars == <<variant, bg_file, in_dir>>
ScanVars == <<data_lookup, global_min_z, global_max_z>>
LoopVars == <<x, y, z>>
TileVars == <<processed_layer_cache, out_dir, processed_count>>
ErrorVars == <<error_count, error_types, skipped_base_coords>>

\* sys.exit(1) (seeder) or return (old) on a configuration error.
ConfigurationError ==
    /\ pc' = "exited"
    /\ exit_code' = ConfigExitStatus(variant)
    /\ UNCHANGED <<StitchVars, RunVars, background_image, ScanVars, LoopVars, TileVars, ErrorVars,
                   returned, faults, trace>>

\* Image.open(background_input_path) succeeds; a size other than the expected
\* one is only warned about.
LoadBackground ==
    /\ pc = "load_background"
    /\ bg_file.status = "ok"
    /\ background_image' = Atlas(bg_file.w, bg_file.h)
    /\ pc' = "scan"
    /\ UNCHANGED <<StitchVars, RunVars, ScanVars, LoopVars, TileVars, ErrorVars, returned, exit_code,
                   faults, trace>>

\* FileNotFoundError or another exception of Image.open.
BackgroundUnavailable ==
    /\ pc = "load_background"
    /\ bg_file.status \in {"missing", "unreadable"}
    /\ ConfigurationError

all_files == { f \in in_dir : f.ext = "minimap" }

ParseFragmentName(v, f) ==
    IF v = "seeder" THEN parse_coordinates_from_filename(f)
    ELSE old_parse_coordinates_from_filename(f)

\* Mutant: only the names of fragments inside the grid are kept.
ValidFiles_InGrid(v) ==
    { f \in all_files : /\ ParseFragmentName(v, f) # NoCoord
                        /\ ParseFragmentName(v, f)[1] \in min_x .. max_x
                        /\ ParseFragmentName(v, f)[2] \in min_y .. max_y }

ValidFiles(v) == { f \in all_files : ParseFragmentName(v, f) # NoCoord }

FoundCoords(v) == { ParseFragmentName(v, f) : f \in ValidFiles(v) }

MinOf(S) == CHOOSE m \in S : \A n \in S : m <= n
MaxOf(S) == CHOOSE m \in S : \A n \in S : m >= n

NoFragmentFiles ==
    /\ pc = "scan"
    /\ all_files = {}
    /\ ConfigurationError

\* global_min_z is still sys.maxsize after the scan.
NoValidFragment ==
    /\ pc = "scan"
    /\ all_files # {}
    /\ ValidFiles(variant) = {}
    /\ ConfigurationError

\* The scan loop: every parsable name enters data_lookup (of two names with the
\* same coordinate the one listed last stays) and widens the Z range.
ScanFiles ==
    /\ pc = "scan"
    /\ ValidFiles(variant) # {}
    /\ \E lookup \in [FoundCoords(variant) -> ValidFiles(variant)] :
          /\ \A c \in FoundCoords(variant) : ParseFragmentName(variant, lookup[c]) = c
          /\ data_lookup' = lookup
    /\ global_min_z' = MinOf({ c[3] : c \in FoundCoords(variant) })
    /\ global_max_z' = MaxOf({ c[3] : c \in FoundCoords(variant) })
    /\ x' = min_x
    /\ y' = min_y
    /\ z' = global_min_z'
    /\ pc' = "columns"
    /\ UNCHANGED <<StitchVars, RunVars, background_image, TileVars, ErrorVars, returned, exit_code,
                   faults, trace>>

\* z == global_min_z and get_background_chunk returned None (its own checks, or
\* an exception raised by the crop): the column is given up.
ColumnBrokenIteration ==
    /\ pc = "columns"
    /\ z = global_min_z
    /\ \E raised \in BOOLEAN :
          /\ IF raised THEN faults < MaxFaults
             ELSE None \in BackgroundChunk(variant, x, y, background_image)
          /\ faults' = IF raised THEN faults + 1 ELSE faults
    /\ skipped_base_coords' = skipped_base_coords \cup {<<x, y>>}
    /\ error_count' = error_count + ColumnErrorCount(global_min_z, global_max_z)
    /\ error_types' = IF variant = "seeder" THEN Count(error_types, "missing_base_image")
                      ELSE error_types
    /\ trace' = Log(trace, Entry(<<x, y, z>>, None, "n/a", None, "n/a",
                                    <<"missing_base_image">>,
                                    error_count' - error_count))
    /\ UNCHANGED <<StitchVars, RunVars, background_image, ScanVars, TileVars, returned, exit_code>>

ColumnBroken == ColumnBrokenIteration /\ Advance(BreakOnMissingBase, skipped_base_coords')

\* Mutant: an absent entry of z - 1 is replaced by the entry of z - 2.
PreviousLayer_SkipsBack(cache, cx, cy, cz) ==
    IF <<cx, cy, cz - 1>> \in DOMAIN cache THEN cache[<<cx, cy, cz - 1>>]
    ELSE Get(cache, <<cx, cy, cz - 2>>)

\* Mutant: the key is built with x and y exchanged.
PreviousLayer_SwappedKey(cache, cx, cy, cz) == Get(cache, <<cy, cx, cz - 1>>)

\* Mutant: an absent entry of z - 1 is replaced by the background chunk.
PreviousLayer_FallsBackToChunk(cache, cx, cy, cz) ==
    IF <<cx, cy, cz - 1>> \in DOMAIN cache THEN cache[<<cx, cy, cz - 1>>]
    ELSE IF BackgroundChunk("seeder", cx, cy, background_image) \ {None} = {} THEN None
    ELSE CHOOSE b \in BackgroundChunk("seeder", cx, cy, background_image) \ {None} : TRUE

\* The base of a floor above the lowest one: the cache entry of the floor below.
PreviousLayer(cache, cx, cy, cz) == Get(cache, <<cx, cy, cz - 1>>)

\* z > global_min_z and the cache has no entry for z - 1: the floor is skipped.
PreviousLayerMissingIteration ==
    /\ pc = "columns"
    /\ z > global_min_z
    /\ PreviousLayer(processed_layer_cache, x, y, z) = None
    /\ error_count' = error_count + 1
    /\ error_types' = IF variant = "seeder" THEN Count(error_types, "missing_previous_layer")
                      ELSE error_types
    /\ trace' = Log(trace, Entry(<<x, y, z>>, None, "n/a", None, "n/a",
                                    <<"missing_previous_layer">>,
                                    error_count' - error_count))
    /\ UNCHANGED <<StitchVars, RunVars, background_image, ScanVars, TileVars, skipped_base_coords,
                   returned, exit_code, faults>>

PreviousLayerMissing ==
    PreviousLayerMissingIteration /\ Advance(BreakOnMissingPrevious, skipped_base_coords)

\* Mutant: every floor starts from the background chunk.
BaseImages_AlwaysChunk == BackgroundChunk(variant, x, y, background_image) \ {None}

\* The bases an iteration at (x, y, z) can work on.
BaseImages ==
    IF z = global_min_z
    THEN BackgroundChunk(variant, x, y, background_image) \ {None}
    ELSE {PreviousLayer(processed_layer_cache, x, y, z)} \ {None}

\* Step 2 and 3: the raster of the floor and the errors recorded on the way.
\* frag is "absent" (no file), "decoded", "load_fail" or "paste_fail".
Compose(v, base_image, c, frag) ==
    IF frag = "decoded"
    THEN PasteOnCopy(base_image, LoadTile(v, c))
    ELSE Copy(base_image)

\* Mutant: a fragment that fails to load is not counted.
ComposeErrors_LoadUncounted(frag) ==
    IF frag = "paste_fail" THEN <<"paste_failure">> ELSE <<>>

ComposeErrors(frag) ==
    IF frag = "load_fail" THEN <<"tile_load_failure">>
    ELSE IF frag = "paste_fail" THEN <<"paste_failure">>
    ELSE <<>>

\* Mutant: a failed save is not counted.
SaveErrors_Uncounted(saved) == <<>>

\* Step 4: an exception of result_image.save is counted.
SaveErrors(saved) == IF saved THEN <<>> ELSE <<"save_failure">>

\* Mutant: the result enters the cache before the save is attempted.
CacheAfterSave_Always(cache, c, result_image, saved) == Put(cache, c, result_image)

\* Mutant: the cache key leaves out the column.
CacheAfterSave_SharedKey(cache, c, result_image, saved) ==
    IF saved THEN Put(cache, <<min_x, min_y, c[3]>>, result_image) ELSE cache

\* Step 4 after a successful save: the result enters the cache.
CacheAfterSave(cache, c, result_image, saved) ==
    IF saved THEN Put(cache, c, result_image) ELSE cache

\* Mutant: the old script stores the result before it tries to save it.
old_CacheAfterSave_BeforeSave(cache, c, result_image, saved) == Put(cache, c, result_image)

\* The same step of old_extract_minimap.py: save, then the cache entry, inside
\* one try.
old_CacheAfterSave(cache, c, result_image, saved) ==
    IF saved THEN Put(cache, c, result_image) ELSE cache

\* "4. Save & Cache Result" of the script that runs.
CacheStep(v, cache, c, result_image, saved) ==
    IF v = "seeder" THEN CacheAfterSave(cache, c, result_image, saved)
    ELSE old_CacheAfterSave(cache, c, result_image, saved)

\* Mutant: paste works on base_image itself, the object the cache holds.
PasteOnOwnObject_Shared == FALSE

\* result_image = base_image.copy(): the object that paste changes in place is
\* a new one, not the object the cache holds for the floor below.
PasteOnOwnObject == TRUE

\* The cache after result_image.paste(...): an entry that is the pasted object
\* shows the paste.
CacheAfterPaste(cache, c, frag, result_image) ==
    IF PasteOnOwnObject \/ frag # "decoded" \/ <<c[1], c[2], c[3] - 1>> \notin DOMAIN cache
    THEN cache
    ELSE [cache EXCEPT ![<<c[1], c[2], c[3] - 1>>] = result_image]

RECURSIVE CountAll(_, _)
CountAll(types, errs) ==
    IF errs = <<>> THEN types ELSE CountAll(Count(types, Head(errs)), Tail(errs))

\* One iteration of the z loop that has a base: compose, save, cache.
ComposeFloorIteration ==
    /\ pc = "columns"
    /\ \E base_image \in BaseImages :
       \E frag \in (IF <<x, y, z>> \in DOMAIN data_lookup
                    THEN {"decoded", "load_fail", "paste_fail"} ELSE {"absent"}) :
       \E saved \in BOOLEAN :
          LET c == <<x, y, z>>
              result_image == Compose(variant, base_image, c, frag)
              nfrag == IF frag = "load_fail" \/ (frag = "paste_fail" /\ MaskAccepted(LoadTile(variant, c)))
                       THEN 1 ELSE 0
              nsave == IF ~saved /\ ~IsEmptyImage(result_image) THEN 1 ELSE 0
              errs == ComposeErrors(frag) \o SaveErrors(saved)
          IN  /\ frag = "decoded" => MaskAccepted(LoadTile(variant, c))
              /\ saved => ~IsEmptyImage(result_image)
              /\ faults + nfrag + nsave <= MaxFaults
              /\ faults' = faults + nfrag + nsave
              /\ processed_layer_cache' =
                    CacheStep(variant,
                              CacheAfterPaste(processed_layer_cache, c, frag, result_image),
                              c, result_image, saved)
              /\ out_dir' = IF saved THEN Put(out_dir, OutputName(x, y, z), result_image)
                            ELSE out_dir
              /\ processed_count' = IF saved THEN processed_count + 1 ELSE processed_count
              /\ error_count' = error_count + Len(errs)
              /\ error_types' = IF variant = "seeder" THEN CountAll(error_types, errs)
                                ELSE error_types
              /\ trace' = Log(trace, Entry(c, base_image, frag, result_image,
                                              IF saved THEN "ok" ELSE "fail",
                                              errs, error_count' - error_count))
    /\ UNCHANGED <<StitchVars, RunVars, background_image, ScanVars, skipped_base_coords, returned,
                   exit_code>>

ComposeFloor == ComposeFloorIteration /\ Advance(FALSE, skipped_base_coords)

\* The value main hands back, and the exit status the command derives from it:
\* the seeder script returns error_count and exits 1 when it is positive; the
\* old script prints the summary and returns nothing.
ReturnValue(v, errors) == IF v = "seeder" THEN errors ELSE 0 - 1

ExitStatus(v, errors) == IF v = "seeder" /\ errors > 0 THEN 1 ELSE 0

Summary ==
    /\ pc = "summary"
    /\ returned' = ReturnValue(variant, error_count)
    /\ exit_code' = ExitStatus(variant, error_count)
    /\ pc' = "exited"
    /\ UNCHANGED <<StitchVars, RunVars, background_image, ScanVars, LoopVars, TileVars, ErrorVars,
                   faults, trace>>

\* ---------------------------------------------------------------- assembler
\* Files of the tile directory: a raster, a file of zero bytes, or a file that
\* Image.open rejects.
EmptyFile == [kind |-> "Empty"]
CorruptFile == [kind |-> "Corrupt"]

\* The tile a compositor run leaves for coordinate c: opaque, or (as the old
\* script writes it) with an alpha channel and clear and half-clear samples.
TileRaster(c) ==
    LET rgba == (c[1] + c[2] + (c[3] - ZLo)) % 2 = 1
    IN  Image(IF rgba THEN "RGBA" ELSE "RGB", tile_width, tile_height,
              [cell \in Cells(tile_width, tile_height) |->
                  Pixel(30 + c[1] + 2 * cell[1], 40 + c[2] + 2 * cell[2],
                        50 + 5 * (c[3] - ZLo),
                        IF rgba /\ cell = <<0, 0>> THEN 0
                        ELSE IF rgba /\ cell[1] = cell[2] THEN 128 ELSE 255)])

\* The tile of a column that a short background cut to half its width.
NarrowTileRaster(c) ==
    Image("RGB", Unit, tile_height,
          [cell \in Cells(Unit, tile_height) |->
              Pixel(30 + c[1], 40 + c[2] + 2 * cell[2], 50 + 5 * (c[3] - ZLo), 255)])

TileNames ==
    { OutputName(tx, ty, tz) : tx \in min_x .. max_x, ty \in min_y .. max_y, tz \in ZLo .. ZHi }
      \cup { FileName(<<Letter>>, "png"), FileName(<<Letter>>, "txt") }

TileFiles(name) ==
    IF parse_coordinates(name) = NoCoord
    THEN { EmptyFile, TileRaster(<<0, 0, 0>>) }
    ELSE { EmptyFile, CorruptFile, TileRaster(parse_coordinates(name)) }
           \cup (IF parse_coordinates(name)[1] = max_x
                 THEN { NarrowTileRaster(parse_coordinates(name)) } ELSE {})

TileEntries ==
    UNION { { [name |-> n, file |-> f] : f \in TileFiles(n) } : n \in TileNames }

\* Directory listings: the order is the one os.listdir happens to give.
RECURSIVE Listings(_)
Listings(k) ==
    IF k = 0 THEN { <<>> }
    ELSE LET shorter == Listings(k - 1)
         IN  shorter \cup
               UNION { { Append(d, e) : e \in { t \in TileEntries :
                                                  \A i \in DOMAIN d : d[i].name # t.name } }
                       : d \in { s \in shorter : Len(s) = k - 1 } }

TileDirs == Listings(MaxTiles)

\* [f for f in os.listdir(directory) if f.endswith('.png')]
PngFiles(listing) == SelectSeq(listing, LAMBDA f : f.name.ext = "png")

HasCoord(f) == parse_coordinates(f.name) # NoCoord

\* layer_files of stitch_layer: the .png files whose name gives floor z_layer.
LayerFiles(listing, z_layer) ==
    SelectSeq(PngFiles(listing),
              LAMBDA f : IF HasCoord(f) THEN parse_coordinates(f.name)[3] = z_layer ELSE FALSE)

SeqRange(q) == { q[i] : i \in DOMAIN q }

\* (x, y) of the files of a listing whose names parse.
CoordsOf(files) ==
    { <<c[1], c[2]>> : c \in { parse_coordinates(f.name) : f \in { g \in SeqRange(files) : HasCoord(g) } } }

\* min and max of x and of y over a non-empty set of (x, y).
Extent(coords) ==
    [min_x |-> MinOf({ c[1] : c \in coords }), max_x |-> MaxOf({ c[1] : c \in coords }),
     min_y |-> MinOf({ c[2] : c \in coords }), max_y |-> MaxOf({ c[2] : c \in coords })]

\* The size read from the file that gives the tile dimensions: os.path.getsize
\* must be positive and Image.open must accept the file.
TileSizeFrom(f) == IF f.file.kind = "Image" THEN <<f.file.w, f.file.h>> ELSE <<>>

\* convert('L').convert('RGBA')
Grayscale(img) ==
    Image("RGBA", img.w, img.h,
          [cell \in Cells(img.w, img.h) |->
              Pixel((img.px[cell].c[1] * 299 + img.px[cell].c[2] * 587
                       + img.px[cell].c[3] * 114) \div 1000,
                    (img.px[cell].c[1] * 299 + img.px[cell].c[2] * 587
                       + img.px[cell].c[3] * 114) \div 1000,
                    (img.px[cell].c[1] * 299 + img.px[cell].c[2] * 587
                       + img.px[cell].c[3] * 114) \div 1000,
                    255)])

\* "Grayscale background if Z < 1"
Shade(background_chunk, z_layer) ==
    IF z_layer < 1 THEN Grayscale(background_chunk) ELSE background_chunk

\* Image.new('RGBA', (w, h), (0, 0, 0, 0))
NewTransparent(w, h) == Image("RGBA", w, h, [cell \in Cells(w, h) |-> Transparent])

\* Row of the background that holds map row ty: the script writes 4 - y, the
\* top row of the grid.
BackgroundRow(ty) == max_y - ty

\* The background chunk of tile (tx, ty) with the tile pasted through its alpha.
TileOnBackground(tile, tx, ty, z_layer, bg, tw, th) ==
    PasteAt(Shade(ConvertRGBA(Crop(bg, tx * tw, BackgroundRow(ty) * th,
                                   tx * tw + tw, BackgroundRow(ty) * th + th)),
                  z_layer),
            ConvertRGBA(tile), 0, 0, TRUE)

\* Mutant: the row is counted from min_y, without the inversion of Y.
PlaceTile_NotInverted(output_image, f, c, z_layer, bg, tw, th, ext) ==
    IF f.file.kind = "Image"
    THEN PasteAt(output_image, TileOnBackground(f.file, c[1], c[2], z_layer, bg, tw, th),
                 (c[1] - ext.min_x) * tw, (c[2] - ext.min_y) * th, FALSE)
    ELSE output_image

\* One iteration of "Place each tile": an empty or unreadable file is skipped.
PlaceTile(output_image, f, c, z_layer, bg, tw, th, ext) ==
    IF f.file.kind = "Image"
    THEN PasteAt(output_image, TileOnBackground(f.file, c[1], c[2], z_layer, bg, tw, th),
                 (c[1] - ext.min_x) * tw, (ext.max_y - c[2]) * th, FALSE)
    ELSE output_image

RECURSIVE PlaceTiles(_, _, _, _, _, _, _, _)
PlaceTiles(output_image, layer_files, i, z_layer, bg, tw, th, ext) ==
    IF i > Len(layer_files) THEN output_image
    ELSE PlaceTiles(PlaceTile(output_image, layer_files[i],
                              parse_coordinates(layer_files[i].name),
                              z_layer, bg, tw, th, ext),
                    layer_files, i + 1, z_layer, bg, tw, th, ext)

NoLayer == [image |-> None, min_x |-> 0, min_y |-> 0, max_y |-> 0]

\* stitch_layer once the tile size is known.
LayerOfSize(layer_files, z_layer, bg, size, ext) ==
    [image |-> PlaceTiles(NewTransparent((ext.max_x - ext.min_x + 1) * size[1],
                                         (ext.max_y - ext.min_y + 1) * size[2]),
                          layer_files, 1, z_layer, bg, size[1], size[2], ext),
     min_x |-> ext.min_x, min_y |-> ext.min_y, max_y |-> ext.max_y]

\* stitch_layer once layer_files is filtered.
LayerOf(layer_files, z_layer, bg) ==
    IF layer_files = <<>> THEN NoLayer
    ELSE IF TileSizeFrom(layer_files[1]) = <<>> THEN NoLayer
    ELSE LayerOfSize(layer_files, z_layer, bg, TileSizeFrom(layer_files[1]),
                     Extent(CoordsOf(layer_files)))

\* tools/scripts/stitch_minimap.py: (output_image, min_x, min_y, max_y), or
\* NoLayer for (None, None, None, None).
stitch_layer(listing, z_layer, bg) == LayerOf(LayerFiles(listing, z_layer), z_layer, bg)

\* sorted(z_layers)
RECURSIVE Sorted(_)
Sorted(S) == IF S = {} THEN <<>> ELSE <<MinOf(S)>> \o Sorted(S \ {MinOf(S)})

\* One iteration of "Stack layers from bottom to top".
StackLayer(composite, layer, tw, th, ext) ==
    IF layer.image # None
    THEN PasteAt(composite, layer.image,
                 (layer.min_x - ext.min_x) * tw, (ext.max_y - layer.max_y) * th, TRUE)
    ELSE composite

RECURSIVE StackLayers(_, _, _, _, _, _, _, _)
StackLayers(composite, zs, i, listing, bg, tw, th, ext) ==
    IF i > Len(zs) THEN composite
    ELSE StackLayers(StackLayer(composite, stitch_layer(listing, zs[i], bg), tw, th, ext),
                     zs, i + 1, listing, bg, tw, th, ext)

\* Mutant: the composite is pasted over the background section without its
\* alpha as mask.
OverBackground_Unmasked(composite, bg, tw, th, ext) ==
    PasteAt(PasteAt(NewTransparent(composite.w, composite.h),
                    ConvertRGBA(Resize(Crop(bg, ext.min_x * tw, BackgroundRow(ext.max_y) * th,
                                            (ext.max_x + 1) * tw,
                                            (BackgroundRow(ext.min_y) + 1) * th),
                                       composite.w, composite.h)),
                    0, 0, FALSE),
            composite, 0, 0, FALSE)

\* "Final step: Apply the full background to the composite".
OverBackground(composite, bg, tw, th, ext) ==
    PasteAt(PasteAt(NewTransparent(composite.w, composite.h),
                    ConvertRGBA(Resize(Crop(bg, ext.min_x * tw, BackgroundRow(ext.max_y) * th,
                                            (ext.max_x + 1) * tw,
                                            (BackgroundRow(ext.min_y) + 1) * th),
                                       composite.w, composite.h)),
                    0, 0, FALSE),
            composite, 0, 0, TRUE)

\* create_composite once the tile size is known.
CompositeOfSize(listing, layers, bg, tw, th, ext) ==
    OverBackground(StackLayers(NewTransparent((ext.max_x - ext.min_x + 1) * tw,
                                              (ext.max_y - ext.min_y + 1) * th),
                               Sorted(layers), 1, listing, bg, tw, th, ext),
                   bg, tw, th, ext)

\* create_composite once all_files is listed.
CompositeOf(all_png, listing, layers, bg) ==
    IF CoordsOf(all_png) = {} THEN None
    ELSE IF TileSizeFrom(all_png[1]) = <<>> THEN None
    ELSE CompositeOfSize(listing, layers, bg, TileSizeFrom(all_png[1])[1],
                         TileSizeFrom(all_png[1])[2], Extent(CoordsOf(all_png)))

\* tools/scripts/stitch_minimap.py: the full composite, or None.
create_composite(listing, layers, bg) == CompositeOf(PngFiles(listing), listing, layers, bg)

\* The floors named by the .png files of the directory.
ScannedLayers(listing) ==
    { parse_coordinates(f.name)[3] : f \in { g \in SeqRange(PngFiles(listing)) : HasCoord(g) } }

\* Value main returns on a configuration error.
StitchConfigError == 1

\* sys.exit(1) if errors > 0, else sys.exit(0)
StitchExitStatus(errors) == IF errors > 0 THEN 1 ELSE 0

StitchStep(step, lz, made, saved) ==
    [step |-> step, z |-> lz, made |-> made, saved |-> saved]

CompositorVars ==
    << variant, in_dir, ScanVars, LoopVars, TileVars, ErrorVars, trace >>

\* Exit status of a process that an uncaught exception ends.
UncaughtExit == 1

\* What main does with an exception of Image.save: the seeder script catches
\* it and goes on, tools/scripts has no handler around save.
SaveIsGuarded(v) == v = "seeder"

StitchInit ==
    /\ variant \in {"seeder", "tools"}
    /\ pc = "stitch_load_background"
    /\ bg_file \in BgFiles
    /\ tiles_dir \in TileDirs
    /\ in_dir = {}
    /\ background_image = None
    /\ data_lookup = <<>>
    /\ global_min_z = 0
    /\ global_max_z = 0
    /\ x = min_x
    /\ y = min_y
    /\ z = 0
    /\ processed_layer_cache = <<>>
    /\ out_dir = <<>>
    /\ processed_count = 0
    /\ error_count = 0
    /\ error_types = [t \in ErrorTypes |-> 0]
    /\ skipped_base_coords = {}
    /\ returned = 0 - 1
    /\ exit_code = 0 - 1
    /\ faults = 0
    /\ trace = <<>>
    /\ z_layers = {}
    /\ z_done = {}
    /\ stitch_out = <<>>
    /\ layer_save_errors = 0
    /\ stitch_log = <<>>

\* return 1 from main, then sys.exit(1) (seeder); a plain return (tools).
StitchAbort ==
    /\ returned' = IF variant = "seeder" THEN StitchConfigError ELSE returned
    /\ exit_code' = IF variant = "seeder" THEN StitchExitStatus(StitchConfigError) ELSE 0
    /\ pc' = "stitch_exited"
    /\ UNCHANGED <<CompositorVars, bg_file, background_image, faults, StitchVars>>

StitchLoadBackground ==
    /\ pc = "stitch_load_background"
    /\ bg_file.status = "ok"
    /\ background_image' = Atlas(bg_file.w, bg_file.h)
    /\ pc' = "stitch_scan"
    /\ UNCHANGED <<CompositorVars, bg_file, returned, exit_code, faults, StitchVars>>

StitchBackgroundUnavailable ==
    /\ pc = "stitch_load_background"
    /\ bg_file.status \in {"missing", "unreadable"}
    /\ StitchAbort

\* os.listdir(extracted_tiles_dir) is empty (checked by the seeder script only).
StitchNoFiles ==
    /\ pc = "stitch_scan"
    /\ variant = "seeder"
    /\ tiles_dir = <<>>
    /\ StitchAbort

\* No .png name yields a floor (checked by the seeder script only).
StitchNoLayers ==
    /\ pc = "stitch_scan"
    /\ variant = "seeder"
    /\ tiles_dir # <<>>
    /\ ScannedLayers(tiles_dir) = {}
    /\ StitchAbort

StitchScan ==
    /\ pc = "stitch_scan"
    /\ variant = "seeder" => ScannedLayers(tiles_dir) # {}
    /\ z_layers' = ScannedLayers(tiles_dir)
    /\ pc' = "stitch_composite"
    /\ UNCHANGED <<CompositorVars, bg_file, background_image, returned, exit_code, faults,
                   tiles_dir, z_done, stitch_out, layer_save_errors, stitch_log>>

\* Name under which the mosaic of floor lz is saved: f'layer_{z}.png'.
LayerName(lz) ==
    FileName(<<Letter>> \o (IF lz < 0 THEN <<Dash, Num(0 - lz)>> ELSE <<Num(lz)>>), "png")

\* Name under which the full composite is saved: 'composite.png'.
CompositeName == FileName(<<Letter>>, "png")

\* create_composite, then composite.save.  Seeder: a composite that could not
\* be made is warned about, a failed save is printed; neither is counted.
\* tools/scripts: the exception of a failed save ends the run.
StitchComposite ==
    /\ pc = "stitch_composite"
    /\ \E composite \in { create_composite(tiles_dir, z_layers, background_image) } :
       \E saved \in BOOLEAN :
          /\ composite = None => saved = FALSE
          /\ (composite # None /\ ~saved) => faults < MaxFaults
          /\ faults' = IF composite # None /\ ~saved THEN faults + 1 ELSE faults
          /\ stitch_out' = IF saved THEN Put(stitch_out, CompositeName, composite)
                           ELSE stitch_out
          /\ stitch_log' = Append(stitch_log,
                                  StitchStep("composite", 0, composite # None,
                                             IF composite = None THEN "n/a"
                                             ELSE IF saved THEN "ok" ELSE "fail"))
          /\ IF composite # None /\ ~saved /\ ~SaveIsGuarded(variant)
             THEN pc' = "stitch_exited" /\ exit_code' = UncaughtExit
             ELSE pc' = "stitch_layers" /\ UNCHANGED exit_code
    /\ UNCHANGED <<CompositorVars, bg_file, background_image, returned,
                   tiles_dir, z_layers, z_done, layer_save_errors>>

\* A failed save of a layer mosaic is counted.
LayerSaveErrors(errors, made, saved) == IF made /\ ~saved THEN errors + 1 ELSE errors

\* One iteration of "for z in sorted(z_layers)".
StitchLayer ==
    /\ pc = "stitch_layers"
    /\ z_done # z_layers
    /\ \E lz \in { MinOf(z_layers \ z_done) } :
       \E stitched \in { stitch_layer(tiles_dir, lz, background_image).image } :
       \E saved \in BOOLEAN :
          /\ stitched = None => saved = FALSE
          /\ (stitched # None /\ ~saved) => faults < MaxFaults
          /\ faults' = IF stitched # None /\ ~saved THEN faults + 1 ELSE faults
          /\ stitch_out' = IF saved THEN Put(stitch_out, LayerName(lz), stitched)
                           ELSE stitch_out
          /\ stitch_log' = Append(stitch_log,
                                  StitchStep("layer", lz, stitched # None,
                                             IF stitched = None THEN "n/a"
                                             ELSE IF saved THEN "ok" ELSE "fail"))
          /\ z_done' = z_done \cup {lz}
          /\ IF stitched # None /\ ~saved /\ ~SaveIsGuarded(variant)
             THEN /\ pc' = "stitch_exited"
                  /\ exit_code' = UncaughtExit
                  /\ UNCHANGED layer_save_errors
             ELSE /\ layer_save_errors' =
                        LayerSaveErrors(layer_save_errors, stitched # None, saved)
                  /\ UNCHANGED <<pc, exit_code>>
    /\ UNCHANGED <<CompositorVars, bg_file, background_image, returned,
                   tiles_dir, z_layers>>

\* Seeder: return layer_save_errors, and the exit status derived from it.
\* tools/scripts: main returns nothing and the process ends normally.
StitchReturn ==
    /\ pc = "stitch_layers"
    /\ z_done = z_layers
    /\ returned' = IF variant = "seeder" THEN layer_save_errors ELSE returned
    /\ exit_code' = IF variant = "seeder" THEN StitchExitStatus(layer_save_errors) ELSE 0
    /\ pc' = "stitch_exited"
    /\ UNCHANGED <<CompositorVars, bg_file, background_image, faults, StitchVars>>

StitchNext ==
    \/ StitchLoadBackground
    \/ StitchBackgroundUnavailable
    \/ StitchNoFiles
    \/ StitchNoLayers
    \/ StitchScan
    \/ StitchComposite
    \/ StitchLayer
    \/ StitchReturn

Next ==
    \/ LoadBackground
    \/ BackgroundUnavailable
    \/ NoFragmentFiles
    \/ NoValidFragment
    \/ ScanFiles
    \/ ColumnBroken
    \/ PreviousLayerMissing
    \/ ComposeFloor
    \/ Summary

Spec == Init /\ [][Next]_vars

\* The script is one sequential process: the statement it is at is executed.
FairSpec == Spec /\ WF_vars(Next)

\* The same loop body with the columns taken in any order and interleaved: the
\* run of the seeder script over a readable background and a directory with
\* at least one valid fragment name.
InitAnyOrder ==
    /\ variant = "seeder"
    /\ pc = "load_background"
    /\ bg_file \in { f \in BgFiles : f.status = "ok" /\ f.w # expected_width - Unit }
    /\ in_dir \in { d \in InputDirs :
                      /\ d # {}
                      /\ \A f \in d : /\ f.ext = "minimap"
                                       /\ parse_coordinates_from_filename(f) # NoCoord
                                       /\ parse_coordinates_from_filename(f)[1] <= max_x }
    /\ background_image = None
    /\ data_lookup = <<>>
    /\ global_min_z = 0
    /\ global_max_z = 0
    /\ x = min_x
    /\ y = min_y
    /\ z = 0
    /\ processed_layer_cache = <<>>
    /\ out_dir = <<>>
    /\ processed_count = 0
    /\ error_count = 0
    /\ error_types = [t \in ErrorTypes |-> 0]
    /\ skipped_base_coords = {}
    /\ returned = 0 - 1
    /\ exit_code = 0 - 1
    /\ faults = MaxFaults - MaxFaultsAnyOrder
    /\ trace = <<>>
    /\ tiles_dir = <<>>
    /\ z_layers = {}
    /\ z_done = {}
    /\ stitch_out = <<>>
    /\ layer_save_errors = 0
    /\ stitch_log = <<>>

\* Before the first iteration the schedule may start with any column.
EnterColumn ==
    /\ pc = "columns"
    /\ trace = <<>>
    /\ \E col \in Columns \ {<<x, y>>} :
          /\ x' = col[1]
          /\ y' = col[2]
    /\ UNCHANGED <<StitchVars, RunVars, background_image, ScanVars, z, pc, TileVars, ErrorVars,
                   returned, exit_code, faults, trace>>

ColumnBrokenAnyOrder ==
    ColumnBrokenIteration /\ AdvanceAnyOrder(BreakOnMissingBase, skipped_base_coords')

PreviousLayerMissingAnyOrder ==
    PreviousLayerMissingIteration /\ AdvanceAnyOrder(BreakOnMissingPrevious, skipped_base_coords)

ComposeFloorAnyOrder == ComposeFloorIteration /\ AdvanceAnyOrder(FALSE, skipped_base_coords)

NextAnyOrder ==
    \/ LoadBackground
    \/ ScanFiles
    \/ EnterColumn
    \/ ColumnBrokenAnyOrder
    \/ PreviousLayerMissingAnyOrder
    \/ ComposeFloorAnyOrder
    \/ Summary

SpecAnyOrder == InitAnyOrder /\ [][NextAnyOrder]_vars

SpecStitch == StitchInit /\ [][StitchNext]_vars

\* --------------------------------------------------------------- vocabulary
Floors == global_min_z .. global_max_z

\* The scan succeeded: the run works through the grid.
GridRun == DOMAIN data_lookup # {}
\* The run has ended after working through the grid.
Completed == pc = "exited" /\ GridRun
\* A configuration error of the run's inputs.
ConfigFailure ==
    \/ bg_file.status # "ok"
    \/ all_files = {}
    \/ ValidFiles(variant) = {}

Entries == { trace[i] : i \in DOMAIN trace }
EntriesAt(c) == { i \in DOMAIN trace : trace[i].c = c }
Visited(c) == EntriesAt(c) # {}
ComposedAt(c) == \E e \in Entries : e.c = c /\ e.result # None
Cached(c) == c \in DOMAIN processed_layer_cache
Written(c) == OutputName(c[1], c[2], c[3]) \in DOMAIN out_dir
Has(errs, t) == \E k \in DOMAIN errs : errs[k] = t
Times(errs, t) == Cardinality({ k \in DOMAIN errs : errs[k] = t })
SameColumn(c, d) == c[1] = d[1] /\ c[2] = d[2]

RECURSIVE SumInc(_)
SumInc(tr) == IF tr = <<>> THEN 0 ELSE Head(tr).inc + SumInc(Tail(tr))

\* ------------------------------------------------------------------ claims

\* C1: cascade invariant.  For every column and every floor z above Zmin, a
\* raster is composed for (x, y, z) only if (x, y, z-1) is in the layer cache,
\* and at the end of the run it has been composed whenever (x, y, z-1) is there.
C1_Cascade ==
    GridRun =>
        \A col \in Columns : \A cz \in Floors :
            cz > global_min_z =>
                /\ ComposedAt(<<col[1], col[2], cz>>) => Cached(<<col[1], col[2], cz - 1>>)
                /\ (Completed /\ Cached(<<col[1], col[2], cz - 1>>))
                      => ComposedAt(<<col[1], col[2], cz>>)

\* A finished run with a floor above Zmin that was composed and one that was not.
C1_Witness ==
    /\ Completed
    /\ \E c \in { e.c : e \in Entries } :
          c[3] > global_min_z /\ ComposedAt(c) /\ Cached(<<c[1], c[2], c[3] - 1>>)
    /\ \E c \in { e.c : e \in Entries } :
          c[3] > global_min_z /\ ~ComposedAt(c) /\ ~Cached(<<c[1], c[2], c[3] - 1>>)

\* C2 as stated: every composed raster is in the layer cache, whether or not
\* its output file was written.
C2_CachedRegardlessOfSave ==
    \A e \in Entries : e.result # None => Cached(e.c)

\* C2 amended: a composed raster is in the layer cache exactly when its output
\* file was written; after a failed write of (x, y, z) the cache has no entry
\* for it and floor z+1 of the column finds no base.
C2_CachedIffSaved ==
    \A e \in Entries :
        e.result # None =>
            /\ Cached(e.c) <=> e.save = "ok"
            /\ Cached(e.c) => processed_layer_cache[e.c] = e.result
            /\ e.save = "fail" =>
                  \A f \in Entries :
                      (SameColumn(f.c, e.c) /\ f.c[3] = e.c[3] + 1)
                          => f.base = None /\ f.result = None

\* A write failed and the floor above it was reached.
C2_Witness ==
    \E e \in Entries : \E f \in Entries :
        /\ e.result # None /\ e.save = "fail"
        /\ SameColumn(f.c, e.c) /\ f.c[3] = e.c[3] + 1

\* C3: a column whose background chunk is missing at Zmin is given up at once:
\* nothing of it is composed, cached or written, no other floor of it is
\* visited, the error count grows by Zmax - Zmin + 1, and the run still reaches
\* every other column.
C3_ColumnBroken ==
    /\ error_count = SumInc(trace)
    /\ \A i \in DOMAIN trace :
          (trace[i].c[3] = global_min_z /\ trace[i].base = None) =>
              /\ trace[i].inc = global_max_z - global_min_z + 1
              /\ \A j \in DOMAIN trace : SameColumn(trace[j].c, trace[i].c) => j = i
              /\ \A cz \in Floors :
                    LET c == <<trace[i].c[1], trace[i].c[2], cz>>
                    IN  ~ComposedAt(c) /\ ~Cached(c) /\ ~Written(c)
              /\ Completed =>
                    \A col \in Columns : Visited(<<col[1], col[2], global_min_z>>)

\* A finished run over several floors in which a column other than the last
\* one was given up.
C3_Witness ==
    /\ Completed
    /\ global_max_z > global_min_z
    /\ \E i \in DOMAIN trace :
          /\ trace[i].base = None /\ trace[i].c[3] = global_min_z
          /\ i < Len(trace)

\* C4: after a failed write of (x, y, k) the floor has no cache entry, and
\* every floor above k of the column is visited exactly once, records exactly
\* one missing-previous-layer error and is neither composed, cached nor written.
C4_PersistFailureBreaksChain ==
    \A e \in Entries :
        e.save = "fail" =>
            /\ ~Cached(e.c)
            /\ \A cz \in Floors :
                  cz > e.c[3] =>
                      LET c == <<e.c[1], e.c[2], cz>>
                      IN  /\ ~ComposedAt(c) /\ ~Cached(c) /\ ~Written(c)
                          /\ Cardinality(EntriesAt(c)) <= 1
                          /\ Completed => Cardinality(EntriesAt(c)) = 1
                          /\ \A i \in EntriesAt(c) :
                                trace[i].errs = <<"missing_previous_layer">>
                                    /\ trace[i].inc = 1

\* A finished run with a failed write and at least two floors above it.
C4_Witness ==
    /\ Completed
    /\ \E e \in Entries : e.save = "fail" /\ e.c[3] + 2 <= global_max_z

OwnFailures == {"missing_base_image", "tile_load_failure", "paste_failure", "save_failure"}

\* C5 as stated: no error reaches another coordinate.  Every error recorded at
\* a visited coordinate is a failure of that coordinate itself, and a visited
\* coordinate lacks its raster only after a failure of its own.
C5_NoPropagation ==
    \A e \in Entries :
        /\ \A k \in DOMAIN e.errs : e.errs[k] \in OwnFailures
        /\ ~Written(e.c) => (Has(e.errs, "save_failure") \/ Has(e.errs, "missing_base_image"))

\* C5 amended: a decode or paste failure leaves the coordinate with the raster
\* of its base and reaches no other coordinate; an error never reaches another
\* column; but a coordinate that records a missing-previous-layer error, or
\* lacks its raster without a failure of its own, lies above a failed write in
\* its own column.
C5_PropagationStaysInColumn ==
    \A e \in Entries :
        /\ (Has(e.errs, "tile_load_failure") \/ Has(e.errs, "paste_failure")) =>
              /\ e.base # None /\ e.result = e.base
              /\ e.save = "ok" => (Cached(e.c) /\ Written(e.c))
        /\ \A k \in DOMAIN e.errs :
              e.errs[k] \in OwnFailures \cup {"missing_previous_layer"}
        /\ ( \/ Has(e.errs, "missing_previous_layer")
             \/ (~Written(e.c) /\ ~Has(e.errs, "save_failure")
                               /\ ~Has(e.errs, "missing_base_image")) ) =>
              \E f \in Entries :
                  /\ SameColumn(f.c, e.c)
                  /\ f.c[3] < e.c[3]
                  /\ Has(f.errs, "save_failure")

\* A run with a decode or paste failure below a composed floor, and a
\* missing-previous-layer error in a second column.
C5_Witness ==
    /\ \E e \in Entries : \E f \in Entries :
          /\ Has(e.errs, "tile_load_failure") \/ Has(e.errs, "paste_failure")
          /\ SameColumn(f.c, e.c) /\ f.c[3] = e.c[3] + 1 /\ f.result # None
    /\ \E g \in Entries : Has(g.errs, "missing_previous_layer")
    /\ Cardinality({ <<e.c[1], e.c[2]>> : e \in Entries }) > 1

\* C6: a failed write is counted once and is never fatal: the run goes on
\* through every remaining floor and column and ends by returning error_count
\* (the seeder script, which the claim is about, returns it and exits 1).
C6_PersistFailureNotFatal ==
    (\E e \in Entries : e.save = "fail") =>
        /\ error_count = SumInc(trace)
        /\ \A e \in Entries :
              e.save = "fail" => (Times(e.errs, "save_failure") = 1 /\ e.inc = Len(e.errs))
        /\ pc \in {"columns", "summary", "exited"}
        /\ pc = "columns" => ENABLED (ColumnBroken \/ PreviousLayerMissing \/ ComposeFloor)
        /\ pc = "summary" => ENABLED Summary
        /\ pc \in {"summary", "exited"} =>
              \A col \in Columns :
                  \/ \E e \in Entries :
                        e.c = <<col[1], col[2], global_min_z>> /\ e.base = None
                  \/ \A cz \in Floors : Visited(<<col[1], col[2], cz>>)
        /\ (pc = "exited" /\ variant = "seeder") =>
              (returned = error_count /\ returned > 0 /\ exit_code = 1)

\* A finished run of the seeder script with a failed write that was not its
\* last iteration.
C6_Witness ==
    /\ Completed
    /\ variant = "seeder"
    /\ \E i \in DOMAIN trace : trace[i].save = "fail" /\ i < Len(trace)

\* C7: with a base, a floor without fragment is a copy of the base and records
\* no compose error; a floor whose fragment does not decode is a copy of the
\* base and records exactly one error for it; both are then saved and cached as
\* any composed floor is.
C7_FallbackToBase ==
    \A e \in Entries :
        e.base # None =>
            /\ e.frag = "absent" <=> e.c \notin DOMAIN data_lookup
            /\ e.frag = "absent" =>
                  /\ e.result = e.base
                  /\ Len(e.errs) = Times(e.errs, "save_failure")
            /\ e.frag = "load_fail" =>
                  /\ e.result = e.base
                  /\ Times(e.errs, "tile_load_failure") = 1
                  /\ Len(e.errs) = 1 + Times(e.errs, "save_failure")
            /\ e.inc = Len(e.errs)
            /\ e.save \in {"ok", "fail"}
            /\ e.save = "ok" =>
                  /\ Cached(e.c) /\ processed_layer_cache[e.c] = e.result
                  /\ Written(e.c) /\ out_dir[OutputName(e.c[1], e.c[2], e.c[3])] = e.result

\* A run with a floor without fragment and a floor whose fragment did not
\* decode, both saved.
C7_Witness ==
    /\ \E e \in Entries : e.frag = "absent" /\ e.base # None /\ e.save = "ok"
    /\ \E e \in Entries : e.frag = "load_fail" /\ e.save = "ok" /\ Cached(e.c)

\* Vocabulary of the assembler's run.
StitchSteps == { stitch_log[i] : i \in DOMAIN stitch_log }
\* The run stopped on its inputs: no background, no file, no floor.
StitchConfigFailure ==
    \/ bg_file.status # "ok"
    \/ tiles_dir = <<>>
    \/ ScannedLayers(tiles_dir) = {}
\* The composite could not be created or could not be saved.
CompositeFailed ==
    \E s \in StitchSteps : s.step = "composite" /\ (~s.made \/ s.saved = "fail")
\* The mosaic of some floor could not be saved.
LayerSaveFailed == \E s \in StitchSteps : s.step = "layer" /\ s.saved = "fail"

\* C8: each command exits with status 0 exactly when no error occurred in its
\* run, and with a nonzero status otherwise.  For the compositor command an
\* error is a configuration error or an error recorded for a floor; for the
\* assembler command it is a configuration error, a composite that could not be
\* created or saved, or a floor mosaic that could not be saved.
C8_ExitZeroIffNoError ==
    /\ (pc = "exited" /\ variant = "seeder") =>
          (exit_code = 0 <=> (~ConfigFailure /\ \A e \in Entries : e.inc = 0))
    /\ pc = "stitch_exited" =>
          (exit_code = 0 <=> ~(StitchConfigFailure \/ CompositeFailed \/ LayerSaveFailed))

NoValidTile ==
    /\ bg_file.status = "ok"
    /\ ScannedLayers(tiles_dir) # {}
    /\ \A f \in SeqRange(PngFiles(tiles_dir)) : f.file.kind # "Image"

\* C10: when no valid tile gives the tile size, the assembly ends as a
\* configuration error: it writes no floor mosaic and no composite, and it
\* reports failure through a nonzero exit status.
C10_NoValidTileAborts ==
    (pc = "stitch_exited" /\ NoValidTile) => (stitch_out = <<>> /\ exit_code # 0)

\* C11: a failed save of the mosaic of floor z does not stop the assembly:
\* every floor above z that the directory names is still stitched, and its
\* save attempted, before the run ends.
C11_LayerSaveFailureContinues ==
    pc = "stitch_exited" =>
        \A s \in StitchSteps :
            (s.step = "layer" /\ s.saved = "fail") =>
                \A lz \in z_layers :
                    lz > s.z => \E t \in StitchSteps : t.step = "layer" /\ t.z = lz

\* The crop box of column (cx, cy): left, upper, right, lower.
ChunkBox(cx, cy) ==
    << cx * tile_width, (max_y - cy) * tile_height,
       cx * tile_width + tile_width, (max_y - cy) * tile_height + tile_height >>

\* The crop box of column (cx, cy) lies entirely inside the raster bg.
BoxInside(cx, cy, bg) ==
    /\ ChunkBox(cx, cy)[1] >= 0 /\ ChunkBox(cx, cy)[2] >= 0
    /\ ChunkBox(cx, cy)[3] <= bg.w /\ ChunkBox(cx, cy)[4] <= bg.h

\* The iterations of the lowest floor: the ones that ask for a background chunk.
BaseEntries == { e \in Entries : e.c[3] = global_min_z }

\* C12: the chunk of column (x, y) is the tile_width x tile_height box whose
\* top-left pixel is (x * tile_width, (max_y - y) * tile_height), and no raster
\* is returned whenever that box is not entirely inside the atlas.
C12_ChunkIsFullBoxOrNothing ==
    \A e \in BaseEntries :
        e.base # None =>
            /\ BoxInside(e.c[1], e.c[2], background_image)
            /\ e.base.w = tile_width /\ e.base.h = tile_height
            /\ e.base.px = Crop(background_image, ChunkBox(e.c[1], e.c[2])[1],
                                ChunkBox(e.c[1], e.c[2])[2], ChunkBox(e.c[1], e.c[2])[3],
                                ChunkBox(e.c[1], e.c[2])[4]).px

\* C13: whenever the background chunk of a column is obtained, the raster of
\* its lowest floor is composed and has the canonical tile size, whatever the
\* size of the atlas the run accepted.
C13_BaseFloorCanonicalSize ==
    \A e \in BaseEntries :
        e.base # None =>
            /\ e.result # None
            /\ e.result.w = tile_width /\ e.result.h = tile_height

\* Every sample of the raster is opaque.
FullyOpaque(img) == \A cell \in DOMAIN img.px : img.px[cell].a = 255

\* The iterations whose fragment decoded, leaving aside a paste that an
\* injected failure broke.
DecodedEntries ==
    { e \in Entries :
        \/ e.frag = "decoded"
        \/ e.frag = "paste_fail" /\ ~MaskAccepted(LoadTile(variant, e.c)) }

\* C14: when the fragment of (x, y, z) decodes to a fully opaque raster of the
\* canonical size and a base exists, the composed raster equals the decoded
\* raster pixel for pixel, whatever the base.
C14_OpaqueRoundTrip ==
    \A e \in DecodedEntries :
        (e.base # None /\ FullyOpaque(LoadTile(variant, e.c))) =>
            /\ e.result # None
            /\ e.result.w = tile_width /\ e.result.h = tile_height
            /\ e.result.px = LoadTile(variant, e.c).px

\* The tiles of a floor: its files that are readable, non-empty images.
ValidTiles(layer_files) == SelectSeq(layer_files, LAMBDA f : f.file.kind = "Image")

\* What C15 says of the result layer of stitch_layer for a floor with the
\* tiles tiles: absent exactly when there is none, else of the size of the
\* bounding box of the tiles' columns, in tiles of the size size.
MosaicAsClaimed(tiles, layer, ext, size) ==
    /\ layer.image = None <=> tiles = <<>>
    /\ layer.image # None =>
          /\ layer.image.w = (ext.max_x - ext.min_x + 1) * size[1]
          /\ layer.image.h = (ext.max_y - ext.min_y + 1) * size[2]

\* C15: the mosaic of floor z is absent exactly when no tile exists at floor z;
\* with at least one tile it is a raster of (maxX - minX + 1) * tileWidth by
\* (maxY - minY + 1) * tileHeight, the bounds taken over the columns that have
\* a tile at floor z.
C15_LayerMosaicSize ==
    background_image # None =>
        \A lz \in ZLo .. ZHi :
            \E tiles \in { ValidTiles(LayerFiles(tiles_dir, lz)) } :
                MosaicAsClaimed(tiles, stitch_layer(tiles_dir, lz, background_image),
                                IF tiles = <<>> THEN NoLayer ELSE Extent(CoordsOf(tiles)),
                                IF tiles = <<>> THEN <<>> ELSE TileSizeFrom(tiles[1]))

\* The composite file the run saved, if any.
SavedComposite == Get(stitch_out, CompositeName)

\* The section of the atlas under the global bounding box ext, in tiles of
\* tw x th, resized to w x h.
AtlasSection(bg, tw, th, ext, w, h) ==
    ConvertRGBA(Resize(Crop(bg, ext.min_x * tw, (max_y - ext.max_y) * th,
                            (ext.max_x + 1) * tw, (max_y - ext.min_y + 1) * th), w, h))

\* The mosaic layer, placed in the composite, has a non-transparent pixel at
\* pixel position (X, Y).
CoversAt(layer, X, Y, tw, th, ext) ==
    /\ layer.image # None
    /\ PixelAt(layer.image, X - (layer.min_x - ext.min_x) * tw,
               Y - (ext.max_y - layer.max_y) * th).a > 0

\* The sample points of the composite that no layer mosaic covers.
Uncovered(composite, layers, tw, th, ext) ==
    { cell \in DOMAIN composite.px :
        \A lz \in DOMAIN layers :
            ~CoversAt(layers[lz], cell[1] * Unit, cell[2] * Unit, tw, th, ext) }

BackfillHolds(composite, section, uncovered) ==
    \A cell \in uncovered : composite.px[cell] = section.px[cell]

\* C16: backfill.  Every pixel of the full composite that no layer mosaic
\* covers with a non-transparent pixel equals the pixel at the same position of
\* the atlas section under the global bounding box, resized to the canvas.
C16_Backfill ==
    SavedComposite # None =>
        \E size \in { TileSizeFrom(PngFiles(tiles_dir)[1]) } :
        \E ext \in { Extent(CoordsOf(PngFiles(tiles_dir))) } :
        \E layers \in { [lz \in z_layers |-> stitch_layer(tiles_dir, lz, background_image)] } :
            BackfillHolds(SavedComposite,
                          AtlasSection(background_image, size[1], size[2], ext,
                                       SavedComposite.w, SavedComposite.h),
                          Uncovered(SavedComposite, layers, size[1], size[2], ext))

\* A composite was saved in which some pixel is covered by no layer mosaic and
\* some pixel is covered.
C16_Witness ==
    /\ SavedComposite # None
    /\ \E size \in { TileSizeFrom(PngFiles(tiles_dir)[1]) } :
       \E ext \in { Extent(CoordsOf(PngFiles(tiles_dir))) } :
       \E layers \in { [lz \in z_layers |-> stitch_layer(tiles_dir, lz, background_image)] } :
          /\ Uncovered(SavedComposite, layers, size[1], size[2], ext) # {}
          /\ Uncovered(SavedComposite, layers, size[1], size[2], ext) # DOMAIN SavedComposite.px
\* The nested loops as one function of the run's inputs and of the outcome the
\* environment gave each iteration (the chunk, the fragment, the save), taken
\* from the record tr: the loop state after the iterations 0 .. n - 1 in the
\* order x, y, z.
LoopState(cache, out, count, errors, types, skipped) ==
    [cache |-> cache, out |-> out, count |-> count, errors |-> errors, types |-> types,
     skipped |-> skipped, left |-> {}, visited |-> {}, diverged |-> FALSE]

CoordinateAt(n, zmin, zmax) ==
    LET nz == zmax - zmin + 1
        ny == max_y - min_y + 1
    IN  <<min_x + (n \div (ny * nz)), min_y + ((n \div nz) % ny), zmin + (n % nz)>>

NoBaseIteration(acc, c, zmin, zmax) ==
    IF c[3] = zmin
    THEN [acc EXCEPT !.errors = @ + ColumnErrorCount(zmin, zmax),
                     !.types = Count(@, "missing_base_image"),
                     !.skipped = @ \cup {<<c[1], c[2]>>},
                     !.left = IF BreakOnMissingBase THEN @ \cup {<<c[1], c[2]>>} ELSE @]
    ELSE [acc EXCEPT !.errors = @ + 1,
                     !.types = Count(@, "missing_previous_layer"),
                     !.left = IF BreakOnMissingPrevious THEN @ \cup {<<c[1], c[2]>>} ELSE @]

SavedIteration(acc, c, result_image, saved, errs) ==
    [acc EXCEPT !.cache = CacheAfterSave(@, c, result_image, saved),
                !.out = IF saved THEN Put(@, OutputName(c[1], c[2], c[3]), result_image) ELSE @,
                !.count = IF saved THEN @ + 1 ELSE @,
                !.errors = @ + Len(errs),
                !.types = CountAll(@, errs)]

LoopIteration(acc, c, e, base_image, zmin, zmax) ==
    IF base_image = None THEN NoBaseIteration(acc, c, zmin, zmax)
    ELSE SavedIteration(acc, c, Compose("seeder", base_image, c, e.frag), e.save = "ok",
                        ComposeErrors(e.frag) \o SaveErrors(e.save = "ok"))

LoopBody(acc, c, tr, zmin, zmax) ==
    IF <<c[1], c[2]>> \in acc.left \/ (c[3] = zmin /\ <<c[1], c[2]>> \in acc.skipped)
    THEN [acc EXCEPT !.left = @ \cup {<<c[1], c[2]>>}]
    ELSE IF \A i \in DOMAIN tr : tr[i].c # c
    THEN [acc EXCEPT !.diverged = TRUE]
    ELSE LET e == tr[CHOOSE i \in DOMAIN tr : tr[i].c = c]
         IN  LoopIteration([acc EXCEPT !.visited = @ \cup {c}], c, e,
                           IF c[3] = zmin THEN e.base
                           ELSE PreviousLayer(acc.cache, c[1], c[2], c[3]),
                           zmin, zmax)

RECURSIVE SequentialRun(_, _, _, _, _)
SequentialRun(acc, n, tr, zmin, zmax) ==
    IF n = Cardinality(Columns) * (zmax - zmin + 1) THEN acc
    ELSE SequentialRun(LoopBody(acc, CoordinateAt(n, zmin, zmax), tr, zmin, zmax),
                       n + 1, tr, zmin, zmax)

SameAsSequential(seq) ==
    /\ ~seq.diverged
    /\ seq.visited = { e.c : e \in Entries }
    /\ seq.cache = processed_layer_cache
    /\ seq.out = out_dir
    /\ seq.count = processed_count
    /\ seq.errors = error_count
    /\ seq.types = error_types
    /\ seq.skipped = skipped_base_coords

\* C17: the columns are independent of each other.  Whatever the order in which
\* the columns are taken, and however their iterations interleave (each column
\* taking its floors in ascending order), the run ends with the cache, the
\* written rasters and the error counts that the nested loops give for the same
\* outcomes of the chunk, fragment and save of each coordinate; every cache key
\* is written by one iteration only, that of its own coordinate.
C17_ColumnsIndependent ==
    /\ \A c \in { e.c : e \in Entries } : Cardinality(EntriesAt(c)) = 1
    /\ \A k \in DOMAIN processed_layer_cache :
          \E e \in Entries : e.c = k /\ e.save = "ok" /\ e.result = processed_layer_cache[k]
    /\ \A e \in Entries :
          e.c[3] = global_min_z =>
              e.base \in BackgroundChunk(variant, e.c[1], e.c[2], background_image) \cup {None}
    /\ pc = "exited" =>
          \E seq \in { SequentialRun(LoopState(<<>>, <<>>, 0, 0, [t \in ErrorTypes |-> 0], {}),
                                      0, trace, global_min_z, global_max_z) } :
              SameAsSequential(seq)

\* A finished run of several floors whose last iteration was the top floor of
\* the first column of the grid: every other column was done before it, with a
\* failed save among the iterations.
C17_Witness ==
    /\ Completed
    /\ global_max_z > global_min_z
    /\ <<x, y, z>> = <<min_x, min_y, global_max_z>>
    /\ \A col \in Columns : Visited(<<col[1], col[2], global_max_z>>)
    /\ \E e \in Entries : e.save = "fail"
    /\ \E e \in Entries : e.save = "ok" /\ e.c[3] > global_min_z

\* The fragment names of the input directory that carry the double separator:
\* X-Y--N with N > 0.
DoubleSeparatorNames ==
    { f \in in_dir : /\ f.ext = "minimap"
                     /\ Len(f.stem) = 6
                     /\ IsNum(f.stem[1]) /\ IsDash(f.stem[2]) /\ IsNum(f.stem[3])
                     /\ IsDash(f.stem[4]) /\ IsDash(f.stem[5]) /\ IsNum(f.stem[6])
                     /\ f.stem[6].v > 0 }

\* C18: the file names carry the coordinate between the stages.  The name under
\* which the compositor writes the raster of (x, y, z), negative z included, is
\* read by the assembler's parse_coordinates as (x, y, z) again, every written
\* file being the raster of the coordinate its name parses to; and the
\* compositor reads a fragment name X-Y--N as (X, Y, -N).
C18_NameRoundTrip ==
    /\ \A e \in Entries :
          e.save = "ok" =>
              \E n \in DOMAIN out_dir :
                  /\ n.ext = "png"
                  /\ n.stem[1] = Num(e.c[1]) /\ n.stem[3] = Num(e.c[2])
                  /\ parse_coordinates(n) = e.c
                  /\ out_dir[n] = e.result
    /\ \A n \in DOMAIN out_dir :
          /\ parse_coordinates(n) # NoCoord
          /\ \E e \in Entries : e.save = "ok" /\ e.c = parse_coordinates(n)
    /\ \A f \in DoubleSeparatorNames :
          /\ ParseFragmentName(variant, f) = <<f.stem[1].v, f.stem[3].v, 0 - f.stem[6].v>>
          /\ GridRun => /\ ParseFragmentName(variant, f) \in DOMAIN data_lookup
                        /\ data_lookup[ParseFragmentName(variant, f)] = f

\* A run that read a fragment named with the double separator and wrote the
\* raster of a negative floor and of a floor that is not negative.
C18_Witness ==
    /\ Completed
    /\ DoubleSeparatorNames # {}
    /\ \E e \in Entries : e.save = "ok" /\ e.c[3] < 0 /\ e.frag = "decoded"
    /\ \E e \in Entries : e.save = "ok" /\ e.c[3] >= 0

\* C19: every compositor run terminates, in one of two ways.  Without a
\* configuration failure (no readable background, no fragment file, no valid
\* fragment name) it ends after the loops have entered every column of the grid
\* and, in every column that had its background chunk, every floor; with one it
\* ends before any iteration.  No counted error makes it end earlier.
C19_TerminatesCompleteOrAborted ==
    /\ <>(pc = "exited")
    /\ [](pc = "exited" =>
             IF ConfigFailure
             THEN /\ ~GridRun
                  /\ trace = <<>>
                  /\ out_dir = <<>>
                  /\ processed_layer_cache = <<>>
             ELSE /\ GridRun
                  /\ \A col \in Columns :
                        /\ Visited(<<col[1], col[2], global_min_z>>)
                        /\ col \notin skipped_base_coords =>
                              \A cz \in Floors : Visited(<<col[1], col[2], cz>>))

\* A finished run with a column given up, a failed save, a floor without its
\* previous layer and a later column all of whose floors were composed.
C19_Witness ==
    /\ Completed
    /\ global_max_z > global_min_z
    /\ \E col \in skipped_base_coords : \E e \in Entries : \E f \in Entries :
          /\ e.save = "fail" /\ Before(<<col[1], col[2], global_max_z>>, e.c)
          /\ Has(f.errs, "missing_previous_layer")
          /\ \E d \in Columns :
                /\ Before(e.c, <<d[1], d[2], global_min_z>>)
                /\ \A cz \in Floors : Cached(<<d[1], d[2], cz>>)

\* The iterations that composed a raster and could not save it.
UnsavedEntries == { e \in Entries : e.result # None /\ e.save = "fail" }

\* C20 as stated: the two scripts disagree on the caching of a coordinate.  For
\* a composed raster whose save fails, the save-and-cache step of one script
\* leaves the coordinate in the cache and that of the other does not.
C20_ScriptsDisagree ==
    \A e \in UnsavedEntries :
        (e.c \in DOMAIN CacheStep("old", <<>>, e.c, e.result, FALSE))
            # (e.c \in DOMAIN CacheStep("seeder", <<>>, e.c, e.result, FALSE))

\* C20 amended: the two scripts agree.  In both, the save-and-cache step stores
\* the composed raster of (x, y, z) exactly when the save succeeded, and the
\* cache of the running script has the coordinate exactly then.
C20_ScriptsAgree ==
    \A e \in Entries :
        e.result # None =>
            /\ \A v \in {"old", "seeder"} :
                  CacheStep(v, <<>>, e.c, e.result, e.save = "ok")
                      = (IF e.save = "ok" THEN Put(<<>>, e.c, e.result) ELSE <<>>)
            /\ Cached(e.c) <=> e.save = "ok"
            /\ Written(e.c) <=> e.save = "ok"

\* A run of the old script in which a save failed and a save succeeded.
C20_Witness ==
    /\ variant = "old"
    /\ UnsavedEntries # {}
    /\ \E e \in UnsavedEntries : ~Cached(e.c)
    /\ \E e \in Entries : e.save = "ok" /\ Cached(e.c)

\* The iterations a step adds to the record.
NewEntries == { trace'[i] : i \in DOMAIN trace' } \ Entries

C22_CacheEntriesImmutable ==
    [][ /\ \A k \in DOMAIN processed_layer_cache :
              /\ k \in DOMAIN processed_layer_cache'
              /\ processed_layer_cache'[k] = processed_layer_cache[k]
        /\ \A k \in DOMAIN processed_layer_cache' \ DOMAIN processed_layer_cache :
              /\ k = <<x, y, z>>
              /\ ~Visited(k)
        /\ pc = "columns" => background_image' = background_image ]_vars

\* A floor above Zmin is cached with a raster that differs from the cached
\* raster of the floor below it: a fragment was pasted on the copy.
C22_Witness ==
    \E e \in Entries :
        /\ e.frag = "decoded" /\ e.save = "ok"
        /\ e.c[3] > global_min_z
        /\ Cached(e.c)
        /\ Cached(<<e.c[1], e.c[2], e.c[3] - 1>>)
        /\ processed_layer_cache[e.c] # processed_layer_cache[<<e.c[1], e.c[2], e.c[3] - 1>>]
        /\ processed_layer_cache[<<e.c[1], e.c[2], e.c[3] - 1>>] = e.base

\* The entry of the record for coordinate c (there is one).
EntryOf(c) == trace[CHOOSE i \in DOMAIN trace : trace[i].c = c]

\* The fragment of c exists and decodes: its name is in data_lookup and
\* load_tile_from_minimap gave a raster.
ExistsAndDecodes(c) ==
    /\ c \in DOMAIN data_lookup
    /\ Visited(c)
    /\ EntryOf(c).frag \in {"decoded", "paste_fail"}

OverlayFragment(below, v, c, present) ==
    IF present THEN PasteAt(below, LoadTile(v, c), 0, 0, TRUE) ELSE below

\* The background chunk the column was given, overlaid with the fragments of
\* the floors zmin .. cz that exist and decode, lowest first.
RECURSIVE OverlaidColumn(_, _, _, _, _, _)
OverlaidColumn(chunk, v, cx, cy, cz, zmin) ==
    IF cz < zmin THEN chunk
    ELSE OverlayFragment(OverlaidColumn(chunk, v, cx, cy, cz - 1, zmin), v, <<cx, cy, cz>>,
                         ExistsAndDecodes(<<cx, cy, cz>>))

\* C23: every cached raster of (x, y, z) is the background chunk of (x, y)
\* overlaid, floor by floor from Zmin to z, with exactly the fragments of the
\* column that exist and decode.
C23_CachedIsOverlay ==
    \A k \in DOMAIN processed_layer_cache :
        /\ Visited(<<k[1], k[2], global_min_z>>)
        /\ EntryOf(<<k[1], k[2], global_min_z>>).base
              \in BackgroundChunk(variant, k[1], k[2], background_image) \ {None}
        /\ processed_layer_cache[k] =
              OverlaidColumn(EntryOf(<<k[1], k[2], global_min_z>>).base, variant,
                             k[1], k[2], k[3], global_min_z)

\* The layer mosaic a run saved for floor lz, if any.
SavedLayer(lz) == Get(stitch_out, LayerName(lz))

\* The pixel offset C24 gives tile (tx, ty) in a mosaic of extent ext.
ClaimedOffset(tx, ty, tw, th, ext) == <<(tx - ext.min_x) * tw, (ext.max_y - ty) * th>>

\* What C24 says of the mosaic image for the tiles files of floor lz: each
\* tile's region, at its offset and of the tile size, is inside the canvas,
\* holds what was pasted for that tile, and meets the region of no other tile.
TilesAsClaimed(image, files, lz, bg, tw, th, ext) ==
    \A i \in DOMAIN files :
        \E c \in { parse_coordinates(files[i].name) } :
        \E o \in { ClaimedOffset(c[1], c[2], tw, th, ext) } :
            /\ o[1] >= 0 /\ o[2] >= 0
            /\ o[1] + tw <= image.w /\ o[2] + th <= image.h
            /\ Crop(image, o[1], o[2], o[1] + tw, o[2] + th).px
                  = TileOnBackground(files[i].file, c[1], c[2], lz, bg, tw, th).px
            /\ \A j \in DOMAIN files \ {i} :
                  \E d \in { parse_coordinates(files[j].name) } :
                  \E q \in { ClaimedOffset(d[1], d[2], tw, th, ext) } :
                      \/ q[1] + tw <= o[1] \/ o[1] + tw <= q[1]
                      \/ q[2] + th <= o[2] \/ o[2] + th <= q[2]

\* C24: in a layer mosaic the tile of column (x, y) lies at the pixel offset
\* ((x - minX) * tileWidth, (maxY - y) * tileHeight); offset plus tile size is
\* inside the canvas for every tile of the floor, and the regions of two
\* columns do not overlap.
C24_TileOffsets ==
    \A lz \in ZLo .. ZHi :
        SavedLayer(lz) # None =>
            \E files \in { LayerFiles(tiles_dir, lz) } :
                TilesAsClaimed(SavedLayer(lz), ValidTiles(files), lz, background_image,
                               TileSizeFrom(files[1])[1], TileSizeFrom(files[1])[2],
                               Extent(CoordsOf(files)))

\* A saved mosaic with tiles in two rows of its floor.
C24_Witness ==
    \E lz \in ZLo .. ZHi :
        /\ SavedLayer(lz) # None
        /\ \E files \in { ValidTiles(LayerFiles(tiles_dir, lz)) } :
              /\ Len(files) = 2
              /\ parse_coordinates(files[1].name)[2] # parse_coordinates(files[2].name)[2]

\* The pixel the mosaic layer, placed in the composite, has at (X, Y).
LayerPixelAt(layer, X, Y, tw, th, ext) ==
    PixelAt(layer.image, X - (layer.min_x - ext.min_x) * tw, Y - (ext.max_y - layer.max_y) * th)

\* The floors whose mosaic covers cell of the composite.
CoveringFloors(layers, cell, tw, th, ext) ==
    { lz \in DOMAIN layers : CoversAt(layers[lz], cell[1] * Unit, cell[2] * Unit, tw, th, ext) }

\* At every covered cell the composite shows the pixel of the highest covering
\* floor.
ShowsHighestFloor(composite, layers, tw, th, ext) ==
    \A cell \in DOMAIN composite.px :
        \E floors \in { CoveringFloors(layers, cell, tw, th, ext) } :
            floors # {} =>
                composite.px[cell].c
                    = LayerPixelAt(layers[MaxOf(floors)], cell[1] * Unit, cell[2] * Unit,
                                   tw, th, ext).c

\* C25: the layer mosaics are stacked in ascending floor order, absent ones
\* skipped, and the background is applied after the stack: at every pixel of the
\* full composite that some layer mosaic covers with a non-transparent pixel,
\* the visible value is that of the highest such floor.
C25_HighestFloorVisible ==
    SavedComposite # None =>
        \E size \in { TileSizeFrom(PngFiles(tiles_dir)[1]) } :
        \E ext \in { Extent(CoordsOf(PngFiles(tiles_dir))) } :
        \E layers \in { [lz \in z_layers |-> stitch_layer(tiles_dir, lz, background_image)] } :
            ShowsHighestFloor(SavedComposite, layers, size[1], size[2], ext)

\* C26: at every point of a run the cached floors of a column are the floors
\* Zmin .. z of it for some z, or none: below a cached floor every floor down
\* to Zmin is cached.
C26_CachedPrefix ==
    \A k \in DOMAIN processed_layer_cache :
        \A cz \in global_min_z .. k[3] - 1 : Cached(<<k[1], k[2], cz>>)

\* A finished run of three floors with a column cached throughout and a
\* column cached at its lowest floor only, the save of the second having failed.
C26_Witness ==
    /\ Completed
    /\ global_max_z = global_min_z + 2
    /\ \E col \in Columns : \A cz \in Floors : Cached(<<col[1], col[2], cz>>)
    /\ \E col \in Columns :
          /\ Cached(<<col[1], col[2], global_min_z>>)
          /\ ComposedAt(<<col[1], col[2], global_min_z + 1>>)
          /\ ~Cached(<<col[1], col[2], global_min_z + 1>>)
          /\ ~Cached(<<col[1], col[2], global_max_z>>)

\* The slots of the grid over the floor range, and those for which the run
\* wrote no raster.
Slots == { <<col[1], col[2], cz>> : col \in Columns, cz \in Floors }
EmptySlots == { c \in Slots : ~Written(c) }

\* C27: at the end of a run the slots without a raster are at most as many as
\* the errors counted, and the count of produced tiles is the number of cache
\* entries; a run that counts (and, in the seeder script, returns) no error has
\* written a raster for every slot.
C27_ErrorsBoundEmptySlots ==
    Completed =>
        /\ Cardinality(EmptySlots) <= error_count
        /\ processed_count = Cardinality(DOMAIN processed_layer_cache)
        /\ processed_count = Cardinality(Slots) - Cardinality(EmptySlots)
        /\ variant = "seeder" => returned = error_count
        /\ error_count = 0 => EmptySlots = {}

\* A finished run over several floors with a column given up and a paste
\* failure: some slots are empty and the errors are more than the empty slots.
C27_Witness ==
    /\ Completed
    /\ global_max_z > global_min_z
    /\ skipped_base_coords # {}
    /\ EmptySlots # {}
    /\ Cardinality(EmptySlots) < error_count
    /\ \E e \in Entries : Has(e.errs, "paste_failure") /\ Written(e.c)

RECURSIVE SumOver(_, _)
SumOver(types, S) ==
    IF S = {} THEN 0
    ELSE types[CHOOSE t \in S : TRUE] + SumOver(types, S \ {CHOOSE t \in S : TRUE})

ParsedCoords ==
    { ParseFragmentName(variant, f) :
        f \in { g \in in_dir : g.ext = "minimap" /\ ParseFragmentName(variant, g) # NoCoord } }
OutsideGrid(c) == <<c[1], c[2]>> \notin Columns

\* C29: the floor range is the least and the greatest z over every fragment
\* name that parses, those of columns outside the grid included.  A fragment
\* outside the grid is never the subject of an iteration, nothing is cached or
\* written for its column, and every column of the grid that has its
\* background chunk is taken through the whole range.
C29_RangeOverAllFragments ==
    GridRun =>
        /\ global_min_z = MinOf({ c[3] : c \in ParsedCoords })
        /\ global_max_z = MaxOf({ c[3] : c \in ParsedCoords })
        /\ \A c \in ParsedCoords : c \in DOMAIN data_lookup
        /\ \A e \in Entries : ~OutsideGrid(e.c)
        /\ \A k \in DOMAIN processed_layer_cache : ~OutsideGrid(k)
        /\ \A n \in DOMAIN out_dir : ~OutsideGrid(parse_coordinates(n))
        /\ Completed =>
              \A col \in Columns \ skipped_base_coords :
                  \A cz \in Floors : Visited(<<col[1], col[2], cz>>)

\* A finished run whose floor range was widened upwards by a fragment outside
\* the grid, with a column of the grid written at the top of the range.
C29_Witness ==
    /\ Completed
    /\ \E c \in ParsedCoords : OutsideGrid(c) /\ c[3] = global_max_z
    /\ \E c \in ParsedCoords : ~OutsideGrid(c)
    /\ \A c \in ParsedCoords : ~OutsideGrid(c) => c[3] < global_max_z
    /\ \E col \in Columns : Written(<<col[1], col[2], global_max_z>>)

\* What C30 says of one layer mosaic in a composite of w x h with tiles of
\* tw x th and the global extent ext: placed at its offset it lies inside the
\* canvas, and each of its tiles lies where the atlas chunk of its column lies
\* in the section of the atlas cropped for the composite.
LayerGeometry(layer, tiles, ltw, lth, lext, w, h, tw, th, ext) ==
    layer.image # None =>
        /\ (layer.min_x - ext.min_x) * tw >= 0
        /\ (ext.max_y - layer.max_y) * th >= 0
        /\ (layer.min_x - ext.min_x) * tw + layer.image.w <= w
        /\ (ext.max_y - layer.max_y) * th + layer.image.h <= h
        /\ \A i \in DOMAIN tiles :
              \E c \in { parse_coordinates(tiles[i].name) } :
                  /\ (layer.min_x - ext.min_x) * tw + ClaimedOffset(c[1], c[2], ltw, lth, lext)[1]
                        = c[1] * tw - ext.min_x * tw
                  /\ (ext.max_y - layer.max_y) * th + ClaimedOffset(c[1], c[2], ltw, lth, lext)[2]
                        = BackgroundRow(c[2]) * th - BackgroundRow(ext.max_y) * th

\* C30: the geometry of the full composite agrees with the atlas.  The section
\* of the atlas cropped for the composite has the size of the canvas, every
\* layer mosaic at its offset ((minX - globalMinX) * tileWidth, (globalMaxY -
\* maxY) * tileHeight) lies inside the canvas, and every tile lies where the
\* atlas chunk of its column lies in the section.
C30_CompositeGeometry ==
    SavedComposite # None =>
        \E size \in { TileSizeFrom(PngFiles(tiles_dir)[1]) } :
        \E ext \in { Extent(CoordsOf(PngFiles(tiles_dir))) } :
            /\ (ext.max_x + 1) * size[1] - ext.min_x * size[1] = SavedComposite.w
            /\ (BackgroundRow(ext.min_y) + 1) * size[2] - BackgroundRow(ext.max_y) * size[2]
                  = SavedComposite.h
            /\ \A lz \in z_layers :
                  \E files \in { LayerFiles(tiles_dir, lz) } :
                      LayerGeometry(stitch_layer(tiles_dir, lz, background_image),
                                    ValidTiles(files),
                                    IF TileSizeFrom(files[1]) = <<>> THEN 0
                                    ELSE TileSizeFrom(files[1])[1],
                                    IF TileSizeFrom(files[1]) = <<>> THEN 0
                                    ELSE TileSizeFrom(files[1])[2],
                                    Extent(CoordsOf(files)),
                                    SavedComposite.w, SavedComposite.h, size[1], size[2], ext)

====
